---- MODULE Spec2Model ----
(***************************************************************************)
(* Model of two cores of the server:                                       *)
(*   - the lazy transaction (LazyTxn) of a session: its three-state slot   *)
(*     pair, its statement staging buffer and its observable TxnInfo;      *)
(*   - the DDL job dispatcher: the job table, the candidate query, the     *)
(*     runnability filters, the worker pools and the delivered tasks.      *)
(* TxnSpec runs the first, DDLSpec the second.                             *)
(***************************************************************************)
EXTENDS Integers, Sequences, FiniteSets, TLC

VARIABLES
    txn,          \* the session's LazyTxn
    sessStartTS,  \* sctx.GetSessionVars().TxnCtx.StartTS
    pc,           \* where the session goroutine is: "idle", or inside a KV call
    originState,  \* LockKeys' local variable originState
    lastCall,     \* the last LazyTxn call that returned, and what it returned
    stmts,        \* number of onStmtStart calls made since the initial state
    passed,       \* the non-empty digests passed to onStmtStart since TxnInfo
                  \* was last zeroed, in call order
    store,        \* config.GetGlobalConfig().Store
    jobs,         \* rows of mysql.tidb_ddl_job
    nextJobID,    \* the global job ID allocator
    runningJobs,  \* ddlCtx.runningJobs.ids
    pool,         \* free workers of each pool
    tasks,        \* the goroutines spawned by delivery2worker
    dpc,          \* where the dispatch loop is
    once,         \* d.once
    isOwner,      \* d.isOwner()
    enableConcurrentDDL, \* variable.EnableConcurrentDDL
    waiting,      \* d.waiting
    ctxDone,      \* d.ctx is cancelled
    inherited,    \* IDs of the processing rows a previous owner left in the
                  \* table and this owner has not delivered to a worker yet
    nextDue,      \* history, kept by OnceSpec alone: whether the loop has set
                  \* once since a delivered job last began to wait for the
                  \* schema sync, and the first job delivered since
    kv,           \* the meta KV store: the two legacy job queues, the reorg
                  \* handles and the concurrent-DDL flag
    reorgTbl,     \* rows of mysql.tidb_ddl_reorg
    lastMove,     \* the last migration call that returned
    lastIDs,      \* the last job given to job2SchemaIDs and job2TableIDs,
                  \* and the two strings they returned
    lastGet       \* the last call of getJob made on its own, and its result

txnVars == <<txn, sessStartTS, pc, originState, lastCall, stmts, passed,
             store>>
ddlVars == <<jobs, nextJobID, runningJobs, pool, tasks, dpc, once, isOwner,
             enableConcurrentDDL, waiting, ctxDone, inherited, nextDue>>
moveVars == <<kv, reorgTbl, lastMove, lastIDs, lastGet>>
vars == <<txnVars, ddlVars, moveVars>>

(***************************************************************************)
(* Bounds                                                                  *)
(***************************************************************************)
MaxWrites == 2
MaxStmts == 2
MaxJobs == 2
MaxQueued == 2
MaxIDs == 3
MaxRows == 2

(***************************************************************************)
(* LazyTxn                                                                 *)
(***************************************************************************)
TxnIdle == "Idle"
TxnRunning == "Running"
TxnLockAcquiring == "LockAcquiring"
TxnCommitting == "Committing"
TxnRollingBack == "RollingBack"

InvalidStagingHandle == 0
maxTransactionStmtHistory == 50

StartTSs == {5, 6}
TableIDs == {7, 8}
WriteKeys == 1..3

\* txninfo.TxnInfo{} : the zero value
ZeroTxnInfo ==
    [StartTS |-> 0, State |-> TxnIdle, LastStateChangeTime |-> 0,
     BlockStartTimeValid |-> FALSE, EntriesCount |-> 0, EntriesSize |-> 0,
     CurrentSQLDigest |-> 0, AllSQLDigests |-> <<>>]

\* kv.Transaction == nil
NilTransaction == [nil |-> TRUE, startTS |-> 0, buf |-> <<>>, stages |-> <<>>]

\* store.Begin : a KV transaction with an empty write buffer
Begin(ts) == [nil |-> FALSE, startTS |-> ts, buf |-> <<>>, stages |-> <<>>]

\* MemBuffer.Len
MemLen(t) == Len(t.buf)

\* MemBuffer.Staging : push a frame that remembers the buffer end
MemStaging(t) == [t EXCEPT !.stages = Append(@, Len(t.buf))]

\* MemBuffer.Release : drop the marker of the top frame, keep its writes
MemRelease(t, h) ==
    IF h = Len(t.stages) THEN [t EXCEPT !.stages = SubSeq(@, 1, h - 1)] ELSE t

\* MemBuffer.Cleanup : truncate the buffer back to the frame's start
MemCleanup(t, h) ==
    IF h = Len(t.stages)
        THEN [t EXCEPT !.buf = SubSeq(@, 1, t.stages[h]),
                       !.stages = SubSeq(@, 1, h - 1)]
        ELSE t

\* Transaction.RollbackMemDBToCheckpoint : drop the writes made after the
\* checkpoint, which was taken when the buffer held cp entries
MemRollbackToCheckpoint(t, cp) == [t EXCEPT !.buf = SubSeq(@, 1, cp)]

\* MemBuffer.Set
MemSet(t, k) == [t EXCEPT !.buf = Append(@, k)]

\* LazyTxn.init
InitLazyTxn ==
    [Transaction |-> NilTransaction, txnFuture |-> "nil", initCnt |-> 0,
     stagingHandle |-> InvalidStagingHandle, mutations |-> {},
     mu |-> ZeroTxnInfo, muLocked |-> FALSE]

Valid(l) == ~l.Transaction.nil
pending(l) == l.Transaction.nil /\ l.txnFuture # "nil"
validOrPending(l) == l.txnFuture # "nil" \/ Valid(l)
Invalid(l) == l.Transaction.nil /\ l.txnFuture = "nil"

\* txn.mu.Lock and txn.mu.Unlock : the write lock of the RWMutex of mu
muLock(l) == [l EXCEPT !.muLocked = TRUE]
muUnlock(l) == [l EXCEPT !.muLocked = FALSE]

\* a reader can take the read lock of mu
RLockFree(l) == ~l.muLocked

updateState(l, state) ==
    IF l.mu.State # state
        THEN [l EXCEPT !.mu.State = state, !.mu.LastStateChangeTime = 1]
        ELSE l

initStmtBuf(l) ==
    IF l.Transaction.nil THEN l
    ELSE [l EXCEPT !.initCnt = MemLen(l.Transaction),
                   !.Transaction = MemStaging(l.Transaction),
                   !.stagingHandle = Len(l.Transaction.stages) + 1]

countHint(l) ==
    IF l.stagingHandle = InvalidStagingHandle THEN 0
    ELSE MemLen(l.Transaction) - l.initCnt

\* flushStmtBuf that does not release the frame
flushStmtBuf_NoRelease(l) == l

flushStmtBuf(l) ==
    IF l.stagingHandle = InvalidStagingHandle THEN l
    ELSE LET t == MemRelease(l.Transaction, l.stagingHandle)
         IN [l EXCEPT !.Transaction = t, !.initCnt = MemLen(t)]

cleanupStmtBuf(l) ==
    IF l.stagingHandle = InvalidStagingHandle THEN l
    ELSE LET t == MemCleanup(l.Transaction, l.stagingHandle)
         IN [l EXCEPT !.Transaction = t, !.initCnt = MemLen(t),
                      !.mu.EntriesCount = MemLen(t),
                      !.mu.EntriesSize = MemLen(t)]

\* resetTxnInfo that leaves the start timestamp at zero
resetTxnInfo_NoStartTS(l, startTS, state, entriesCount, entriesSize, cur, all) ==
    [l EXCEPT !.mu = [ZeroTxnInfo EXCEPT !.State = state,
                                          !.LastStateChangeTime = 1,
                                          !.EntriesCount = entriesCount,
                                          !.EntriesSize = entriesSize,
                                          !.CurrentSQLDigest = cur,
                                          !.AllSQLDigests = all]]

resetTxnInfo(l, startTS, state, entriesCount, entriesSize, cur, all) ==
    [l EXCEPT !.mu = [ZeroTxnInfo EXCEPT !.StartTS = startTS,
                                          !.State = state,
                                          !.LastStateChangeTime = 1,
                                          !.EntriesCount = entriesCount,
                                          !.EntriesSize = entriesSize,
                                          !.CurrentSQLDigest = cur,
                                          !.AllSQLDigests = all]]

changeToPending(l) ==
    [l EXCEPT !.Transaction = NilTransaction, !.txnFuture = "future"]

\* txnFuture.wait : the outcomes of waiting for the timestamp and beginning
\* the KV transaction. WaitErr is a failure, any other number the start
\* timestamp of the transaction begun.
WaitErr == 0
futureWait(tsoErr, beginErr) ==
    IF ~tsoErr
        THEN (IF beginErr THEN {WaitErr} ELSE StartTSs)
    ELSE IF store = "unistore"
        THEN {WaitErr}
    ELSE (IF beginErr THEN {WaitErr} ELSE StartTSs)

\* changePendingToValid that leaves the future in its slot on success
changePendingToValid_KeepFuture(l, res) ==
    IF res = WaitErr
        THEN [l EXCEPT !.txnFuture = "nil", !.Transaction = NilTransaction]
    ELSE LET l1 == initStmtBuf([l EXCEPT !.Transaction = Begin(res)])
         IN resetTxnInfo(l1, res, TxnIdle, MemLen(l1.Transaction),
                         MemLen(l1.Transaction), l.mu.CurrentSQLDigest,
                         l.mu.AllSQLDigests)

\* changePendingToValid that puts the future back when the wait fails
changePendingToValid_FutureKeptOnError(l, res) ==
    IF res = WaitErr
        THEN [l EXCEPT !.Transaction = NilTransaction]
    ELSE LET l1 == initStmtBuf([l EXCEPT !.txnFuture = "nil",
                                         !.Transaction = Begin(res)])
         IN resetTxnInfo(l1, res, TxnIdle, MemLen(l1.Transaction),
                         MemLen(l1.Transaction), l.mu.CurrentSQLDigest,
                         l.mu.AllSQLDigests)

\* changePendingToValid with the given outcome of future.wait()
changePendingToValid(l, res) ==
    IF res = WaitErr
        THEN [l EXCEPT !.txnFuture = "nil", !.Transaction = NilTransaction]
    ELSE LET l1 == initStmtBuf([l EXCEPT !.txnFuture = "nil",
                                         !.Transaction = Begin(res)])
         IN resetTxnInfo(l1, res, TxnIdle, MemLen(l1.Transaction),
                         MemLen(l1.Transaction), l.mu.CurrentSQLDigest,
                         l.mu.AllSQLDigests)

\* changeToInvalid that leaves the staging handle as it is
changeToInvalid_KeepHandle(l) ==
    [l EXCEPT !.Transaction = NilTransaction,
              !.txnFuture = "nil",
              !.mu = ZeroTxnInfo]

changeToInvalid(l) ==
    [l EXCEPT !.stagingHandle = InvalidStagingHandle,
              !.Transaction = NilTransaction,
              !.txnFuture = "nil",
              !.mu = ZeroTxnInfo]

\* cleanup that leaves the mutations map as it is
cleanup_KeepMutations(l) == initStmtBuf(cleanupStmtBuf(l))

\* cleanup that opens the next frame without closing the current one
cleanup_NoCleanupStmtBuf(l) ==
    [initStmtBuf(l) EXCEPT !.mutations = {}]

cleanup(l) ==
    [initStmtBuf(cleanupStmtBuf(l)) EXCEPT !.mutations = {}]

\* reset that skips cleanup
reset_NoCleanup(l) == changeToInvalid(l)

reset(l) == changeToInvalid(cleanup(l))

\* The record kept of a call: its name, the error it returned, whether the
\* underlying KV call was made, and the LazyTxn as it was when it was entered.
Call(op, err, kvCalled, pre) ==
    [op |-> op, err |-> err, kvCalled |-> kvCalled, pre |-> pre]


\* The session prepares a timestamp future; it does so only when it holds no
\* KV transaction.
ChangeToPending ==
    /\ pc = "idle"
    /\ txn.Transaction.nil
    /\ txn' = changeToPending(txn)
    /\ lastCall' = Call("changeToPending", "nil", FALSE, txn)
    /\ UNCHANGED <<passed, sessStartTS, pc, originState, stmts, store>>
    /\ UNCHANGED ddlVars
    /\ UNCHANGED moveVars

\* LazyTxn.Wait
Wait ==
    /\ pc = "idle"
    /\ IF ~validOrPending(txn)
          THEN /\ lastCall' = Call("Wait", "ErrInvalidTxn", FALSE, txn)
               /\ UNCHANGED <<txn, sessStartTS>>
       ELSE IF pending(txn)
          THEN \E tsoErr \in BOOLEAN, beginErr \in BOOLEAN :
               \E res \in futureWait(tsoErr, beginErr) :
                 LET l1 == changePendingToValid(txn, res)
                 IN IF res = WaitErr
                      THEN /\ txn' = cleanup(l1)
                           /\ sessStartTS' = 0
                           /\ lastCall' = Call("Wait", "err", FALSE, txn)
                      ELSE /\ txn' = l1
                           /\ lastCall' = Call("Wait", "nil", FALSE, txn)
                           /\ UNCHANGED sessStartTS
       ELSE /\ lastCall' = Call("Wait", "nil", FALSE, txn)
            /\ UNCHANGED <<txn, sessStartTS>>
    /\ UNCHANGED <<passed, pc, originState, stmts, store>>
    /\ UNCHANGED ddlVars
    /\ UNCHANGED moveVars

\* onStmtStart that, at the cap, evicts the oldest digest to keep the newest
onStmtStart_EvictOldest(l, d) ==
    IF d = 0 THEN l
    ELSE LET l1 == updateState(l, TxnRunning)
         IN [l1 EXCEPT !.mu.CurrentSQLDigest = d,
                       !.mu.AllSQLDigests =
                           IF Len(@) < maxTransactionStmtHistory
                               THEN Append(@, d) ELSE Append(Tail(@), d)]

\* LazyTxn.onStmtStart with digest d; 0 is the empty digest. The n-th
\* non-empty digest of a transaction is named n.
onStmtStart(l, d) ==
    IF d = 0 THEN l
    ELSE LET l1 == updateState(l, TxnRunning)
         IN [l1 EXCEPT !.mu.CurrentSQLDigest = d,
                       !.mu.AllSQLDigests =
                           IF Len(@) < maxTransactionStmtHistory
                               THEN Append(@, d) ELSE @]

\* onStmtEnd that clears the digest and leaves the state alone
onStmtEnd_KeepState(l) == [l EXCEPT !.mu.CurrentSQLDigest = 0]

onStmtEnd(l) == updateState([l EXCEPT !.mu.CurrentSQLDigest = 0], TxnIdle)

OnStmtStart ==
    /\ pc = "idle"
    /\ stmts < MaxStmts
    /\ \E d \in {0, Len(passed) + 1} :
         /\ txn' = onStmtStart(txn, d)
         /\ passed' = IF d = 0 THEN passed ELSE Append(passed, d)
         /\ lastCall' = Call("onStmtStart", "nil", FALSE, txn)
    /\ stmts' = stmts + 1
    /\ UNCHANGED <<sessStartTS, pc, originState, store>>
    /\ UNCHANGED ddlVars
    /\ UNCHANGED moveVars

OnStmtEnd ==
    /\ pc = "idle"
    /\ txn' = onStmtEnd(txn)
    /\ lastCall' = Call("onStmtEnd", "nil", FALSE, txn)
    /\ UNCHANGED <<passed, sessStartTS, pc, originState, stmts, store>>
    /\ UNCHANGED ddlVars
    /\ UNCHANGED moveVars

\* A statement writes a key into the transaction's write buffer.
Write ==
    /\ pc = "idle"
    /\ Valid(txn)
    /\ MemLen(txn.Transaction) < MaxWrites
    /\ \E k \in WriteKeys :
         /\ \A i \in 1..Len(txn.Transaction.buf) : txn.Transaction.buf[i] # k
         /\ txn' = [txn EXCEPT !.Transaction = MemSet(@, k)]
    /\ lastCall' = Call("Set", "nil", FALSE, txn)
    /\ UNCHANGED <<passed, sessStartTS, pc, originState, stmts, store>>
    /\ UNCHANGED ddlVars
    /\ UNCHANGED moveVars

\* session.StmtGetMutation
StmtGetMutation ==
    /\ pc = "idle"
    /\ \E tableID \in TableIDs :
         txn' = [txn EXCEPT !.mutations = @ \cup {tableID}]
    /\ lastCall' = Call("StmtGetMutation", "nil", FALSE, txn)
    /\ UNCHANGED <<passed, sessStartTS, pc, originState, stmts, store>>
    /\ UNCHANGED ddlVars
    /\ UNCHANGED moveVars

\* session.StmtCommit
StmtCommit ==
    /\ pc = "idle"
    /\ txn' = cleanup(flushStmtBuf(txn))
    /\ lastCall' = Call("StmtCommit", "nil", FALSE, txn)
    /\ UNCHANGED <<passed, sessStartTS, pc, originState, stmts, store>>
    /\ UNCHANGED ddlVars
    /\ UNCHANGED moveVars

\* session.StmtRollback
StmtRollback ==
    /\ pc = "idle"
    /\ txn' = cleanup(txn)
    /\ lastCall' = Call("StmtRollback", "nil", FALSE, txn)
    /\ UNCHANGED <<passed, sessStartTS, pc, originState, stmts, store>>
    /\ UNCHANGED ddlVars
    /\ UNCHANGED moveVars

\* LazyTxn.RollbackMemDBToCheckpoint : the savepoint is any checkpoint of
\* the write buffer as it is once the statement's frame has been released
RollbackMemDBToCheckpoint ==
    /\ pc = "idle"
    /\ Valid(txn)
    /\ LET l1 == flushStmtBuf(txn)
       IN \E savepoint \in 0..MemLen(l1.Transaction) :
            txn' = cleanup([l1 EXCEPT !.Transaction =
                               MemRollbackToCheckpoint(@, savepoint)])
    /\ lastCall' = Call("RollbackMemDBToCheckpoint", "nil", FALSE, txn)
    /\ UNCHANGED <<passed, sessStartTS, pc, originState, stmts, store>>
    /\ UNCHANGED ddlVars
    /\ UNCHANGED moveVars

\* the check of the precondition without countHint
commitPrecondition_MutationsOnly(l) == ~(Cardinality(l.mutations) # 0)

\* LazyTxn.Commit : the check of the precondition
commitPrecondition(l) == ~(Cardinality(l.mutations) # 0 \/ countHint(l) # 0)

\* LazyTxn.Commit, LazyTxn.Rollback : the state is updated under the lock of
\* mu, which is released before the KV call
commitEnter(l) == muUnlock(updateState(muLock(l), TxnCommitting))
rollbackEnter(l) == muUnlock(updateState(muLock(l), TxnRollingBack))

\* LazyTxn.Commit up to the call of the KV commit
CommitBegin ==
    /\ pc = "idle"
    /\ Valid(txn)
    /\ IF ~commitPrecondition(txn)
          THEN /\ txn' = reset(txn)
               /\ passed' = <<>>
               /\ lastCall' = Call("Commit", "ErrInvalidTxn", FALSE, txn)
               /\ UNCHANGED pc
          ELSE /\ txn' = commitEnter(txn)
               /\ lastCall' = Call("kvCommit", "nil", TRUE, txn)
               /\ pc' = "Commit"
               /\ UNCHANGED passed
    /\ UNCHANGED <<sessStartTS, originState, stmts, store>>
    /\ UNCHANGED ddlVars
    /\ UNCHANGED moveVars

\* The KV commit returns, and the deferred reset runs
CommitEnd ==
    /\ pc = "Commit"
    /\ \E err \in {"nil", "kvErr"} :
         lastCall' = Call("Commit", err, TRUE, lastCall.pre)
    /\ txn' = reset(txn)
    /\ passed' = <<>>
    /\ pc' = "idle"
    /\ UNCHANGED <<sessStartTS, originState, stmts, store>>
    /\ UNCHANGED ddlVars
    /\ UNCHANGED moveVars

\* LazyTxn.Rollback up to the call of the KV rollback
RollbackBegin ==
    /\ pc = "idle"
    /\ Valid(txn)
    /\ txn' = rollbackEnter(txn)
    /\ lastCall' = Call("kvRollback", "nil", TRUE, txn)
    /\ pc' = "Rollback"
    /\ UNCHANGED <<passed, sessStartTS, originState, stmts, store>>
    /\ UNCHANGED ddlVars
    /\ UNCHANGED moveVars

\* The KV rollback returns, and the deferred reset runs
RollbackEnd ==
    /\ pc = "Rollback"
    /\ \E err \in {"nil", "kvErr"} :
         lastCall' = Call("Rollback", err, TRUE, lastCall.pre)
    /\ txn' = reset(txn)
    /\ passed' = <<>>
    /\ pc' = "idle"
    /\ UNCHANGED <<sessStartTS, originState, stmts, store>>
    /\ UNCHANGED ddlVars
    /\ UNCHANGED moveVars

\* LockKeys that keeps the lock of mu while the KV call is made
lockKeysEnter_HoldLock(l) ==
    [updateState(muLock(l), TxnLockAcquiring) EXCEPT
        !.mu.BlockStartTimeValid = TRUE]

\* LazyTxn.LockKeys before the KV call: under the lock of mu, record the
\* state and enter LockAcquiring
lockKeysEnter(l) ==
    muUnlock([updateState(muLock(l), TxnLockAcquiring) EXCEPT
                 !.mu.BlockStartTimeValid = TRUE])

\* LockKeys that moves on to Running instead of restoring the entry state
lockKeysLeave_ToRunning(l, origin) ==
    [updateState(l, TxnRunning) EXCEPT
        !.mu.BlockStartTimeValid = FALSE,
        !.mu.EntriesCount = MemLen(l.Transaction),
        !.mu.EntriesSize = MemLen(l.Transaction)]

\* LazyTxn.LockKeys after the KV call: restore the state, refresh the counters
lockKeysLeave(l, origin) ==
    muUnlock([updateState(muLock(l), origin) EXCEPT
                 !.mu.BlockStartTimeValid = FALSE,
                 !.mu.EntriesCount = MemLen(l.Transaction),
                 !.mu.EntriesSize = MemLen(l.Transaction)])

LockKeysBegin ==
    /\ pc = "idle"
    /\ Valid(txn)
    /\ originState' = txn.mu.State
    /\ txn' = lockKeysEnter(txn)
    /\ lastCall' = Call("kvLockKeys", "nil", TRUE, txn)
    /\ pc' = "LockKeys"
    /\ UNCHANGED <<passed, sessStartTS, stmts, store>>
    /\ UNCHANGED ddlVars
    /\ UNCHANGED moveVars

LockKeysEnd ==
    /\ pc = "LockKeys"
    /\ \E err \in {"nil", "kvErr"} :
         lastCall' = Call("LockKeys", err, TRUE, lastCall.pre)
    /\ txn' = lockKeysLeave(txn, originState)
    /\ pc' = "idle"
    /\ UNCHANGED <<passed, sessStartTS, originState, stmts, store>>
    /\ UNCHANGED ddlVars
    /\ UNCHANGED moveVars

NextTxn ==
    \/ ChangeToPending
    \/ Wait
    \/ OnStmtStart
    \/ OnStmtEnd
    \/ Write
    \/ StmtGetMutation
    \/ StmtCommit
    \/ StmtRollback
    \/ RollbackMemDBToCheckpoint
    \/ CommitBegin
    \/ CommitEnd
    \/ RollbackBegin
    \/ RollbackEnd
    \/ LockKeysBegin
    \/ LockKeysEnd

(***************************************************************************)
(* DDL job table and dispatcher                                            *)
(***************************************************************************)
general == "general"
reorg == "reorg"

ActionCreateTable == "CreateTable"
ActionDropSchema == "DropSchema"
ActionAddIndex == "AddIndex"
ActionRenameTables == "RenameTables"
ActionRenameTable == "RenameTable"
ActionExchangeTablePartition == "ExchangeTablePartition"

generalWorkerCnt == 1
reorgWorkerCnt == 1

\* The jobs a user can submit: single-target general jobs, DropSchema,
\* reorganizations, and a multi-target rename. A multi-target job carries its
\* schema and table ID lists in CtxVars.
JobShapes ==
    {[Type |-> ActionCreateTable, SchemaID |-> 3, TableID |-> 7, CtxVars |-> <<>>],
     [Type |-> ActionDropSchema, SchemaID |-> 3, TableID |-> 0, CtxVars |-> <<>>],
     [Type |-> ActionAddIndex, SchemaID |-> 3, TableID |-> 7, CtxVars |-> <<>>],
     [Type |-> ActionAddIndex, SchemaID |-> 4, TableID |-> 8, CtxVars |-> <<>>],
     [Type |-> ActionAddIndex, SchemaID |-> 3, TableID |-> 8, CtxVars |-> <<>>],
     [Type |-> ActionRenameTables, SchemaID |-> 3, TableID |-> 8,
      CtxVars |-> <<(<<3, 3>>), (<<8, 7>>)>>]}

\* model.Job.MayNeedReorg
MayNeedReorg(job) == job.Type = ActionAddIndex

\* model.Job.NotStarted
NotStarted(job) == job.State \in {"none", "queueing"}

\* strconv.FormatInt(n, 10) : the decimal digits of n
RECURSIVE FormatInt(_)
FormatInt(n) == IF n < 10 THEN <<n>> ELSE Append(FormatInt(n \div 10), n % 10)

\* the order of Go strings, on digit sequences
RECURSIVE StringLess(_, _)
StringLess(a, b) ==
    IF Len(a) = 0 THEN Len(b) > 0
    ELSE IF Len(b) = 0 THEN FALSE
    ELSE IF a[1] # b[1] THEN a[1] < b[1]
    ELSE StringLess(Tail(a), Tail(b))

\* slices.Sort on the decimal strings of a set of IDs. The result is the
\* list of the pieces of the comma-joined string, each named by its number.
RECURSIVE SortStrings(_)
SortStrings(set) ==
    IF set = {} THEN <<>>
    ELSE LET m == CHOOSE x \in set :
                    \A y \in set \ {x} : StringLess(FormatInt(x), FormatInt(y))
         IN <<m>> \o SortStrings(set \ {m})

Range(f) == {f[i] : i \in DOMAIN f}

job2UniqueIDs(job, schema) ==
    IF job.Type \in {ActionExchangeTablePartition, ActionRenameTables, ActionRenameTable}
        THEN LET ids == IF schema THEN job.CtxVars[1] ELSE job.CtxVars[2]
             IN SortStrings(Range(ids))
    ELSE IF schema THEN <<job.SchemaID>>
    ELSE <<job.TableID>>

job2SchemaIDs(job) == job2UniqueIDs(job, TRUE)
job2TableIDs(job) == job2UniqueIDs(job, FALSE)

\* One row of insertDDLJobs2Table
\* the row of a job, inserted with processing set whatever its state
JobRow_Processing(job) ==
    [job_id |-> job.ID, reorg |-> MayNeedReorg(job),
     schema_ids |-> job2SchemaIDs(job), table_ids |-> job2TableIDs(job),
     job_meta |-> job, type |-> job.Type, processing |-> TRUE]

JobRow(job) ==
    [job_id |-> job.ID, reorg |-> MayNeedReorg(job),
     schema_ids |-> job2SchemaIDs(job), table_ids |-> job2TableIDs(job),
     job_meta |-> job, type |-> job.Type, processing |-> ~NotStarted(job)]

\* SQL find_in_set(str, strlist), both given as lists of comma-separated
\* pieces: the position of str in strlist, 0 when absent, and 0 whenever str
\* itself holds a comma or is empty.
RECURSIVE FindFrom(_, _, _)
FindFrom(piece, strlist, i) ==
    IF i > Len(strlist) THEN 0
    ELSE IF strlist[i] = piece THEN i
    ELSE FindFrom(piece, strlist, i + 1)

find_in_set(str, strlist) ==
    IF Len(str) # 1 THEN 0 ELSE FindFrom(str[1], strlist, 1)

\* checkJobIsRunnable : no row is returned by the query
checkJobIsRunnable(rows) == rows = {}

\* the filter of getGeneralJob, on the job table tbl
generalFilter(tbl, job) ==
    IF job.Type = ActionDropSchema
        THEN checkJobIsRunnable(
                {r \in tbl : find_in_set(<<job.SchemaID>>, r.schema_ids) # 0
                              /\ r.processing})
    ELSE checkJobIsRunnable(
            {t1 \in tbl : \E t2 \in {r \in tbl : r.job_id = job.ID} :
                t1.processing /\ find_in_set(t1.table_ids, t2.table_ids) # 0})

\* the filter of getReorgJob without the test of the type
reorgFilter_AnyTypeOfSchema(tbl, job) ==
    checkJobIsRunnable(
        {r \in tbl :
            \/ (find_in_set(<<job.SchemaID>>, r.schema_ids) # 0 /\ r.processing)
            \/ (find_in_set(<<job.TableID>>, r.table_ids) # 0 /\ r.processing)})

\* the filter of getReorgJob that lets a reorganization wait for every
\* processing job
reorgFilter_AnyProcessing(tbl, job) ==
    checkJobIsRunnable({r \in tbl : r.processing})

\* the filter of getReorgJob
reorgFilter(tbl, job) ==
    checkJobIsRunnable(
        {r \in tbl :
            \/ (find_in_set(<<job.SchemaID>>, r.schema_ids) # 0
                 /\ r.type = ActionDropSchema /\ r.processing)
            \/ (find_in_set(<<job.TableID>>, r.table_ids) # 0 /\ r.processing)})

filterOf(tp, tbl, job) ==
    IF tp = reorg THEN reorgFilter(tbl, job) ELSE generalFilter(tbl, job)

\* excludeJobIDs that leaves nothing out
excludeJobIDs_None(running) == {}

\* excludeJobIDs : the IDs the candidate query leaves out
excludeJobIDs(running) == running

\* the candidate query without the restriction to the oldest of each group
MinJobIDs_All(tbl) == {r.job_id : r \in tbl}

\* select min(job_id) from tidb_ddl_job group by schema_ids, table_ids
MinJobIDs(tbl) ==
    {r.job_id : r \in {x \in tbl :
        \A y \in tbl : (y.schema_ids = x.schema_ids /\ y.table_ids = x.table_ids)
                          => x.job_id <= y.job_id}}

\* ... order by job_id alone
RowBefore_ByIDOnly(a, b) == a.job_id < b.job_id

\* ... order by processing desc, job_id
RowBefore(a, b) ==
    \/ a.processing /\ ~b.processing
    \/ a.processing = b.processing /\ a.job_id < b.job_id

RECURSIVE OrderRows(_)
OrderRows(rows) ==
    IF rows = {} THEN <<>>
    ELSE LET m == CHOOSE x \in rows : \A y \in rows \ {x} : RowBefore(x, y)
         IN <<m>> \o OrderRows(rows \ {m})

\* getJobSQL : the rows of the candidate query for the class tp
getJobSQL(tbl, tp, running) ==
    OrderRows({r \in tbl : /\ r.job_id \in MinJobIDs(tbl)
                            /\ r.reorg = (tp = reorg)
                            /\ r.job_id \notin excludeJobIDs(running)})

NoJob == 0

\* the loop of getJob that puts every row, processing or not, to the filter
RECURSIVE scanRows_FilterProcessing(_, _, _, _)
scanRows_FilterProcessing(tbl, tp, rows, i) ==
    IF i > Len(rows) THEN [id |-> NoJob, mark |-> FALSE]
    ELSE IF filterOf(tp, tbl, rows[i].job_meta)
        THEN [id |-> rows[i].job_id, mark |-> ~rows[i].processing]
    ELSE scanRows_FilterProcessing(tbl, tp, rows, i + 1)

\* the loop of getJob over the rows from position i: the ID of the job
\* returned (NoJob when none) and whether it was marked processing
RECURSIVE scanRows(_, _, _, _)
scanRows(tbl, tp, rows, i) ==
    IF i > Len(rows) THEN [id |-> NoJob, mark |-> FALSE]
    ELSE IF rows[i].processing THEN [id |-> rows[i].job_id, mark |-> FALSE]
    ELSE IF filterOf(tp, tbl, rows[i].job_meta)
        THEN [id |-> rows[i].job_id, mark |-> TRUE]
    ELSE scanRows(tbl, tp, rows, i + 1)

getJob(tbl, tp, running) == scanRows(tbl, tp, getJobSQL(tbl, tp, running), 1)

\* markJobProcessing that leaves the row as it is
markJobProcessing_NoMark(tbl, id) == tbl

\* markJobProcessing
markJobProcessing(tbl, id) ==
    {IF r.job_id = id THEN [r EXCEPT !.processing = TRUE] ELSE r : r \in tbl}

\* deleteDDLJob
deleteDDLJob(tbl, id) == {r \in tbl : r.job_id # id}

insertRunningDDLJobMap(ids, id) == ids \cup {id}
\* deleteRunningDDLJobMap that leaves the ID in the set
deleteRunningDDLJobMap_KeepID(ids, id) == ids

deleteRunningDDLJobMap(ids, id) == ids \ {id}

\* The history of the once flag. DueOff: no history is kept. NoDue: the loop
\* has not set once since the job it owed a schema sync began its task.
DueOff == [k |-> "off", id |-> NoJob]
NoDue == [k |-> "none", id |-> NoJob]

\* the loop stores true in once
DueSet(d) == IF d.k = "off" THEN d ELSE [k |-> "set", id |-> NoJob]

\* the job id is delivered: it is the next job delivered if once was set and
\* no job has been delivered since
DueDelivered(d, id) == IF d.k = "set" THEN [k |-> "job", id |-> id] ELSE d

\* the task of the job id has read once
DueStarted(d, id) == IF d.k = "job" /\ d.id = id THEN NoDue ELSE d

\* A user submits a DDL: a new job gets the next ID and state queueing, and
\* its row is inserted.
Enqueue ==
    /\ nextJobID <= MaxJobs
    /\ \E sh \in JobShapes :
         LET job == [ID |-> nextJobID, Type |-> sh.Type, SchemaID |-> sh.SchemaID,
                     TableID |-> sh.TableID, CtxVars |-> sh.CtxVars,
                     State |-> "queueing"]
         IN jobs' = jobs \cup {JobRow(job)}
    /\ nextJobID' = nextJobID + 1
    /\ UNCHANGED <<nextDue, inherited, runningJobs, pool, tasks, dpc, once, isOwner,
                   enableConcurrentDDL, waiting, ctxDone>>
    /\ UNCHANGED txnVars
    /\ UNCHANGED moveVars

\* startDispatchLoop : the checks at the top of the loop
DispatchTop ==
    /\ dpc = "top"
    /\ IF ctxDone
          THEN dpc' = "exit" /\ UNCHANGED <<once, nextDue>>
       ELSE IF ~enableConcurrentDDL \/ ~isOwner \/ waiting
          THEN once' = TRUE /\ nextDue' = DueSet(nextDue) /\ UNCHANGED dpc
       ELSE dpc' = "select" /\ UNCHANGED <<once, nextDue>>
    /\ UNCHANGED <<inherited, jobs, nextJobID, runningJobs, pool, tasks, isOwner,
                   enableConcurrentDDL, waiting, ctxDone>>
    /\ UNCHANGED txnVars
    /\ UNCHANGED moveVars

\* startDispatchLoop : the select over the wakeup sources. The ticker fires
\* whether or not a notification is pending on ddlJobCh or on the etcd watch
\* channel, so a wakeup never depends on the content of either channel.
DispatchSelect ==
    /\ dpc = "select"
    /\ \E src \in {"ddlJobCh", "ticker", "etcd", "etcdClosed", "done"} :
         /\ src = "done" => ctxDone
         /\ dpc' = IF src = "done" THEN "exit"
                   ELSE IF src = "etcdClosed" THEN "top"
                   ELSE "general"
    /\ UNCHANGED <<nextDue, inherited, jobs, nextJobID, runningJobs, pool, tasks, once, isOwner,
                   enableConcurrentDDL, waiting, ctxDone>>
    /\ UNCHANGED txnVars
    /\ UNCHANGED moveVars

\* loadDDLJobAndRun that keeps the worker when getJob yields no job
loadDDLJobAndRun_KeepWorker(tp, sqlErr) ==
    IF pool[tp] = 0
        THEN UNCHANGED <<jobs, runningJobs, pool, tasks, inherited, nextDue>>
    ELSE LET g == getJob(jobs, tp, runningJobs)
         IN IF g.id = NoJob \/ sqlErr
              THEN /\ pool' = [pool EXCEPT ![tp] = @ - 1]
                   /\ UNCHANGED <<jobs, runningJobs, tasks, inherited, nextDue>>
              ELSE /\ jobs' = IF g.mark THEN markJobProcessing(jobs, g.id) ELSE jobs
                   /\ runningJobs' = insertRunningDDLJobMap(runningJobs, g.id)
                   /\ pool' = [pool EXCEPT ![tp] = @ - 1]
                   /\ tasks' = tasks \cup {[id |-> g.id, tp |-> tp, pc |-> "start"]}
                   /\ inherited' = inherited \ {g.id}
                   /\ nextDue' = DueDelivered(nextDue, g.id)

\* loadDDLJobAndRun for the pool of class tp, followed by delivery2worker up
\* to the spawn of the task. sqlErr: a statement of getJob fails.
loadDDLJobAndRun(tp, sqlErr) ==
    IF pool[tp] = 0
        THEN UNCHANGED <<jobs, runningJobs, pool, tasks, inherited, nextDue>>
    ELSE LET g == getJob(jobs, tp, runningJobs)
         IN IF g.id = NoJob \/ sqlErr
              THEN UNCHANGED <<jobs, runningJobs, pool, tasks, inherited, nextDue>>
              ELSE /\ jobs' = IF g.mark THEN markJobProcessing(jobs, g.id) ELSE jobs
                   /\ runningJobs' = insertRunningDDLJobMap(runningJobs, g.id)
                   /\ pool' = [pool EXCEPT ![tp] = @ - 1]
                   /\ tasks' = tasks \cup {[id |-> g.id, tp |-> tp, pc |-> "start"]}
                   /\ inherited' = inherited \ {g.id}
                   /\ nextDue' = DueDelivered(nextDue, g.id)

LoadGeneral ==
    /\ dpc = "general"
    /\ \E sqlErr \in BOOLEAN : loadDDLJobAndRun(general, sqlErr)
    /\ dpc' = "reorg"
    /\ UNCHANGED <<nextJobID, once, isOwner, enableConcurrentDDL, waiting,
                   ctxDone>>
    /\ UNCHANGED txnVars
    /\ UNCHANGED moveVars

LoadReorg ==
    /\ dpc = "reorg"
    /\ \E sqlErr \in BOOLEAN : loadDDLJobAndRun(reorg, sqlErr)
    /\ dpc' = "top"
    /\ UNCHANGED <<nextJobID, once, isOwner, enableConcurrentDDL, waiting,
                   ctxDone>>
    /\ UNCHANGED txnVars
    /\ UNCHANGED moveVars

MoveTask(t, to) == (tasks \ {t}) \cup {[t EXCEPT !.pc = to]}

\* the task of delivery2worker: does it have to wait for the schema sync
TaskStart ==
    /\ \E t \in tasks :
         /\ t.pc = "start"
         /\ \E isSynced \in BOOLEAN :
              tasks' = MoveTask(t, IF ~isSynced \/ once THEN "sync" ELSE "handle")
         /\ nextDue' = DueStarted(nextDue, t.id)
    /\ UNCHANGED <<inherited, jobs, nextJobID, runningJobs, pool, dpc, once, isOwner,
                   enableConcurrentDDL, waiting, ctxDone>>
    /\ UNCHANGED txnVars
    /\ UNCHANGED moveVars

\* waitSchemaSynced returns: without error the task goes on to handle the
\* job, with an error it sleeps and returns
TaskSynced ==
    /\ \E t \in tasks :
         /\ t.pc = "sync"
         /\ \E err \in BOOLEAN :
              IF ~err
                THEN once' = FALSE /\ tasks' = MoveTask(t, "handle")
                ELSE UNCHANGED once /\ tasks' = MoveTask(t, "syncFailed")
    /\ UNCHANGED <<nextDue, inherited, jobs, nextJobID, runningJobs, pool, dpc, isOwner,
                   enableConcurrentDDL, waiting, ctxDone>>
    /\ UNCHANGED txnVars
    /\ UNCHANGED moveVars

\* HandleDDLJobTable runs one step of the job: the job either finishes, and
\* its row is deleted, or stays in the table, still processing
TaskHandle ==
    /\ \E t \in tasks :
         /\ t.pc = "handle"
         /\ \E finished \in BOOLEAN :
              jobs' = IF finished THEN deleteDDLJob(jobs, t.id) ELSE jobs
         /\ tasks' = MoveTask(t, "put")
    /\ UNCHANGED <<nextDue, inherited, nextJobID, runningJobs, pool, dpc, once, isOwner,
                   enableConcurrentDDL, waiting, ctxDone>>
    /\ UNCHANGED txnVars
    /\ UNCHANGED moveVars

\* the deferred cleanup, first statement: pool.put(wk)
TaskPut ==
    /\ \E t \in tasks :
         /\ t.pc \in {"put", "syncFailed"}
         /\ pool' = [pool EXCEPT ![t.tp] = @ + 1]
         /\ tasks' = MoveTask(t, "delete")
    /\ UNCHANGED <<nextDue, inherited, jobs, nextJobID, runningJobs, dpc, once, isOwner,
                   enableConcurrentDDL, waiting, ctxDone>>
    /\ UNCHANGED txnVars
    /\ UNCHANGED moveVars

\* the deferred cleanup, the rest: deleteRunningDDLJobMap, then the
\* non-blocking asyncNotify(ddlJobCh); the task ends
TaskDelete ==
    /\ \E t \in tasks :
         /\ t.pc = "delete"
         /\ runningJobs' = deleteRunningDDLJobMap(runningJobs, t.id)
         /\ tasks' = tasks \ {t}
    /\ UNCHANGED <<nextDue, inherited, jobs, nextJobID, pool, dpc, once, isOwner,
                   enableConcurrentDDL, waiting, ctxDone>>
    /\ UNCHANGED txnVars
    /\ UNCHANGED moveVars

\* the node wins or loses the owner election
OwnerChange ==
    /\ isOwner' = ~isOwner
    /\ UNCHANGED <<nextDue, inherited, jobs, nextJobID, runningJobs, pool, tasks, dpc, once,
                   enableConcurrentDDL, waiting, ctxDone>>
    /\ UNCHANGED txnVars
    /\ UNCHANGED moveVars

\* variable.EnableConcurrentDDL is switched
SwitchConcurrentDDL ==
    /\ enableConcurrentDDL' = ~enableConcurrentDDL
    /\ UNCHANGED <<nextDue, inherited, jobs, nextJobID, runningJobs, pool, tasks, dpc, once, isOwner,
                   waiting, ctxDone>>
    /\ UNCHANGED txnVars
    /\ UNCHANGED moveVars

\* d.waiting is set or cleared
SwitchWaiting ==
    /\ waiting' = ~waiting
    /\ UNCHANGED <<nextDue, inherited, jobs, nextJobID, runningJobs, pool, tasks, dpc, once, isOwner,
                   enableConcurrentDDL, ctxDone>>
    /\ UNCHANGED txnVars
    /\ UNCHANGED moveVars

\* the process-wide context is cancelled
Cancel ==
    /\ ~ctxDone
    /\ ctxDone' = TRUE
    /\ UNCHANGED <<nextDue, inherited, jobs, nextJobID, runningJobs, pool, tasks, dpc, once, isOwner,
                   enableConcurrentDDL, waiting>>
    /\ UNCHANGED txnVars
    /\ UNCHANGED moveVars

NextDDL ==
    \/ Enqueue
    \/ DispatchTop
    \/ DispatchSelect
    \/ LoadGeneral
    \/ LoadReorg
    \/ TaskStart
    \/ TaskSynced
    \/ TaskHandle
    \/ TaskPut
    \/ TaskDelete
    \/ OwnerChange
    \/ SwitchConcurrentDDL
    \/ SwitchWaiting
    \/ Cancel

(***************************************************************************)
(* Migration between the legacy KV queues and the job table                *)
(***************************************************************************)
\* meta.GetSystemDBID : the ID of the system database
systemDBID == 1

\* the jobs the legacy queues can hold: user jobs and internal jobs of the
\* system database, of either class
QueueShapes ==
    {[Type |-> ActionCreateTable, SchemaID |-> 3, TableID |-> 7, CtxVars |-> <<>>],
     [Type |-> ActionAddIndex, SchemaID |-> 3, TableID |-> 7, CtxVars |-> <<>>],
     [Type |-> ActionCreateTable, SchemaID |-> systemDBID, TableID |-> 9,
      CtxVars |-> <<>>],
     [Type |-> ActionAddIndex, SchemaID |-> systemDBID, TableID |-> 9,
      CtxVars |-> <<>>]}

\* the meta KV store of a cluster that runs concurrent DDL
ConcurrentKV == [general |-> <<>>, reorg |-> <<>>, handles |-> {}, flag |-> TRUE]

\* the reorg handle of a job: the same six fields in the KV store and in
\* mysql.tidb_ddl_reorg
ReorgHandle(job) ==
    [job_id |-> job.ID, ele_id |-> 1, ele_type |-> "_idx_", start_key |-> 1,
     end_key |-> 2, physical_id |-> job.TableID]

\* the persistent state a migration works on
Store == [kv |-> kv, jobs |-> jobs, reorgTbl |-> reorgTbl]

\* the statements of a transaction: a read leaves the state alone
ReadOp == [k |-> "read"]

\* a read whose error the caller does not look at
IgnoredReadOp == [k |-> "readIgnored"]

\* the rows of a table as a list, order by job_id
RECURSIVE OrderByJobID(_)
OrderByJobID(rows) ==
    IF rows = {} THEN <<>>
    ELSE LET m == CHOOSE x \in rows : \A y \in rows : x.job_id <= y.job_id
         IN <<m>> \o OrderByJobID(rows \ {m})

\* meta.GetDDLReorgHandle : the handles stored for the job
HandlesOf(st, job) == {h \in st.kv.handles : h.job_id = job.ID}

\* MoveJobFromQueue2Table : the statements run for one job of the queue tp
Q2TJobOps(st, tp, job) ==
    <<[k |-> "insertDDLJobs2Table", job |-> job]>>
    \o (IF tp = general THEN <<>>
        ELSE <<ReadOp>>
             \o (IF HandlesOf(st, job) = {} THEN <<>>
                 ELSE <<[k |-> "initDDLReorgHandle",
                         h |-> CHOOSE h \in HandlesOf(st, job) : TRUE]>>))

\* MoveJobFromQueue2Table : the loop over the jobs of one queue, from job i
RECURSIVE Q2TQueueOps(_, _, _, _)
Q2TQueueOps(st, tp, inBootstrap, i) ==
    IF i > Len(st.kv[tp]) THEN <<>>
    ELSE LET job == st.kv[tp][i]
         IN (IF inBootstrap /\ job.SchemaID = systemDBID THEN <<>>
             ELSE Q2TJobOps(st, tp, job))
            \o Q2TQueueOps(st, tp, inBootstrap, i + 1)

\* MoveJobFromQueue2Table : the statements of the transaction, in order. In
\* bootstrap neither the result nor the error of IsConcurrentDDL is looked
\* at; outside bootstrap a set flag ends the call with nothing done.
Q2TOps(st, inBootstrap) ==
    <<ReadOp>>
    \o (IF inBootstrap THEN <<IgnoredReadOp>> ELSE <<ReadOp>>)
    \o (IF ~inBootstrap /\ st.kv.flag THEN <<>>
        ELSE <<ReadOp>>
             \o <<ReadOp>> \o Q2TQueueOps(st, reorg, inBootstrap, 1)
             \o <<ReadOp>> \o Q2TQueueOps(st, general, inBootstrap, 1)
             \o <<[k |-> "ClearALLDDLJob"], [k |-> "ClearAllDDLReorgHandle"],
                 [k |-> "SetConcurrentDDL", v |-> TRUE]>>)

\* the enqueue of every job into the default list
RECURSIVE T2QJobOps_DefaultList(_, _)
T2QJobOps_DefaultList(rows, i) ==
    IF i > Len(rows) THEN <<>>
    ELSE <<[k |-> "EnQueueDDLJobNoUpdate", job |-> rows[i].job_meta,
            list |-> general]>>
         \o T2QJobOps_DefaultList(rows, i + 1)

\* MoveJobFromTable2Queue : the enqueue of every job of the list rows
RECURSIVE T2QJobOps(_, _)
T2QJobOps(rows, i) ==
    IF i > Len(rows) THEN <<>>
    ELSE LET job == rows[i].job_meta
         IN <<[k |-> "EnQueueDDLJobNoUpdate", job |-> job,
               list |-> IF MayNeedReorg(job) THEN reorg ELSE general]>>
            \o T2QJobOps(rows, i + 1)

\* MoveJobFromTable2Queue : the copy of every row of mysql.tidb_ddl_reorg
RECURSIVE T2QHandleOps(_, _)
T2QHandleOps(rows, i) ==
    IF i > Len(rows) THEN <<>>
    ELSE <<[k |-> "UpdateDDLReorgHandle",
            h |-> [job_id |-> rows[i].job_id, start_key |-> rows[i].start_key,
                   end_key |-> rows[i].end_key,
                   physical_id |-> rows[i].physical_id,
                   ele_id |-> rows[i].ele_id, ele_type |-> rows[i].ele_type]]>>
         \o T2QHandleOps(rows, i + 1)

\* MoveJobFromTable2Queue that does not look at the flag and leaves the rows
\* of the job table in place
T2QOps_NoGuardKeepRows(st) ==
    <<ReadOp, ReadOp>>
    \o <<ReadOp>> \o T2QJobOps(OrderByJobID(st.jobs), 1)
    \o <<ReadOp>> \o T2QHandleOps(OrderByJobID(st.reorgTbl), 1)
    \o <<[k |-> "delete from tidb_ddl_reorg"],
        [k |-> "SetConcurrentDDL", v |-> FALSE]>>

\* MoveJobFromTable2Queue : the statements of the transaction, in order
T2QOps(st) ==
    <<ReadOp, ReadOp>>
    \o (IF ~st.kv.flag THEN <<>>
        ELSE <<ReadOp>> \o T2QJobOps(OrderByJobID(st.jobs), 1)
             \o <<ReadOp>> \o T2QHandleOps(OrderByJobID(st.reorgTbl), 1)
             \o <<[k |-> "delete from tidb_ddl_job"],
                 [k |-> "delete from tidb_ddl_reorg"],
                 [k |-> "SetConcurrentDDL", v |-> FALSE]>>)

\* the effect of a call of the meta package on the KV store
ApplyMeta(st, op) ==
    CASE op.k = "ClearALLDDLJob" ->
            [st EXCEPT !.kv.general = <<>>, !.kv.reorg = <<>>]
      [] op.k = "ClearAllDDLReorgHandle" -> [st EXCEPT !.kv.handles = {}]
      [] op.k = "SetConcurrentDDL" -> [st EXCEPT !.kv.flag = op.v]
      [] op.k = "EnQueueDDLJobNoUpdate" ->
            [st EXCEPT !.kv[op.list] = Append(@, op.job)]
      [] op.k = "UpdateDDLReorgHandle" ->
            [st EXCEPT !.kv.handles =
                {h \in @ : h.job_id # op.h.job_id} \cup {op.h}]

\* the effect of one statement on the state the transaction sees
ApplyOp(st, op) ==
    CASE op.k \in {"read", "readIgnored"} -> st
      [] op.k = "insertDDLJobs2Table" ->
            [st EXCEPT !.jobs = @ \cup {JobRow(op.job)}]
      [] op.k = "initDDLReorgHandle" ->
            [st EXCEPT !.reorgTbl = @ \cup {op.h}]
      [] op.k = "delete from tidb_ddl_job" -> [st EXCEPT !.jobs = {}]
      [] op.k = "delete from tidb_ddl_reorg" -> [st EXCEPT !.reorgTbl = {}]
      [] OTHER -> ApplyMeta(st, op)

\* the state the transaction sees after its first n statements
RECURSIVE ApplyOps(_, _, _)
ApplyOps(st, ops, n) ==
    IF n = 0 THEN st ELSE ApplyOp(ApplyOps(st, ops, n - 1), ops[n])

\* does the function run in the transaction return an error, when its
\* statement failAt fails (none when 0)
Fails(ops, failAt) == failAt # 0 /\ ops[failAt].k # "readIgnored"

\* runInTxn that commits the work done so far when a statement fails
runInTxn_NoRollback(st, ops, beginErr, failAt, commitErr) ==
    IF beginErr THEN [st |-> st, err |-> TRUE]
    ELSE IF Fails(ops, failAt)
        THEN [st |-> ApplyOps(st, ops, failAt - 1), err |-> TRUE]
    ELSE IF commitErr THEN [st |-> st, err |-> TRUE]
    ELSE [st |-> ApplyOps(st, ops, Len(ops)), err |-> FALSE]

\* runInTxn : begin, the statements ops of which statement failAt fails (none
\* when 0), then rollback or commit; the committed state and the error
runInTxn(st, ops, beginErr, failAt, commitErr) ==
    IF beginErr THEN [st |-> st, err |-> TRUE]
    ELSE IF Fails(ops, failAt) THEN [st |-> st, err |-> TRUE]
    ELSE IF commitErr THEN [st |-> st, err |-> TRUE]
    ELSE [st |-> ApplyOps(st, ops, Len(ops)), err |-> FALSE]

\* the record kept of a migration call: its name and argument, what failed
\* in it, whether it returned an error, the state it started from and,
\* when it follows a successful MoveJobFromQueue2Table, that call's argument
\* and starting state
MoveCall(op, inBootstrap, failed, err, pre, follows, boot2, pre2) ==
    [op |-> op, inBootstrap |-> inBootstrap, failed |-> failed, err |-> err,
     pre |-> pre, follows |-> follows, boot2 |-> boot2, pre2 |-> pre2]

\* what fails in a call of runInTxn: nothing, a read whose error is not
\* looked at, or another step (begin, a statement of the function, commit)
FailedStep(ops, beginErr, failAt, commitErr) ==
    IF beginErr THEN "step"
    ELSE IF failAt # 0
        THEN (IF ops[failAt].k = "readIgnored" THEN "readIgnored" ELSE "step")
    ELSE IF commitErr THEN "step"
    ELSE "none"

NoMove ==
    MoveCall("none", FALSE, "none", FALSE,
             [kv |-> ConcurrentKV, jobs |-> {}, reorgTbl |-> {}],
             FALSE, FALSE,
             [kv |-> ConcurrentKV, jobs |-> {}, reorgTbl |-> {}])

MoveJobFromQueue2Table ==
    /\ \E inBootstrap \in BOOLEAN, beginErr \in BOOLEAN, commitErr \in BOOLEAN :
         LET ops == Q2TOps(Store, inBootstrap)
         IN \E failAt \in 0..Len(ops) :
              LET r == runInTxn(Store, ops, beginErr, failAt, commitErr)
              IN /\ kv' = r.st.kv
                 /\ jobs' = r.st.jobs
                 /\ reorgTbl' = r.st.reorgTbl
                 /\ lastMove' = MoveCall("Queue2Table", inBootstrap,
                                         FailedStep(ops, beginErr, failAt,
                                                    commitErr),
                                         r.err, Store, FALSE, FALSE, Store)
    /\ UNCHANGED <<nextJobID, runningJobs, pool, tasks, dpc, once, isOwner,
                   enableConcurrentDDL, waiting, ctxDone, inherited, nextDue>>
    /\ UNCHANGED txnVars
    /\ UNCHANGED <<lastIDs, lastGet>>

MoveJobFromTable2Queue ==
    /\ \E beginErr \in BOOLEAN, commitErr \in BOOLEAN :
         LET ops == T2QOps(Store)
             follows == lastMove.op = "Queue2Table" /\ ~lastMove.err
         IN \E failAt \in 0..Len(ops) :
              LET r == runInTxn(Store, ops, beginErr, failAt, commitErr)
              IN /\ kv' = r.st.kv
                 /\ jobs' = r.st.jobs
                 /\ reorgTbl' = r.st.reorgTbl
                 /\ lastMove' = MoveCall("Table2Queue", FALSE,
                                         FailedStep(ops, beginErr, failAt,
                                                    commitErr),
                                         r.err, Store, follows,
                                         follows /\ lastMove.inBootstrap,
                                         IF follows THEN lastMove.pre ELSE Store)
    /\ UNCHANGED <<nextJobID, runningJobs, pool, tasks, dpc, once, isOwner,
                   enableConcurrentDDL, waiting, ctxDone, inherited, nextDue>>
    /\ UNCHANGED txnVars
    /\ UNCHANGED <<lastIDs, lastGet>>

NextMove ==
    \/ MoveJobFromQueue2Table
    \/ MoveJobFromTable2Queue

(***************************************************************************)
(* getJob on a job table left by earlier dispatching                       *)
(***************************************************************************)
\* the rows job id can have in the table: of any shape, waiting or already
\* marked processing
RowsOf(id) ==
    UNION {LET row == JobRow([ID |-> id, Type |-> sh.Type,
                              SchemaID |-> sh.SchemaID, TableID |-> sh.TableID,
                              CtxVars |-> sh.CtxVars, State |-> "queueing"])
           IN {row, [row EXCEPT !.processing = TRUE]} : sh \in JobShapes}

\* the job tables holding the jobs 1..n
RECURSIVE JobTables(_)
JobTables(n) ==
    IF n = 0 THEN {{}}
    ELSE {tbl \cup {row} : tbl \in JobTables(n - 1), row \in RowsOf(n)}

\* the class of a row
ClassOfRow(r) == IF r.reorg THEN reorg ELSE general

\* the tasks that can be under way on the table tbl: each on a processing
\* row of its own, handling it with a worker of the row's class, or past
\* pool.put and about to leave the running set
TasksOn(tbl) ==
    {T \in SUBSET {[id |-> r.job_id, tp |-> ClassOfRow(r), pc |-> to] :
                      r \in {x \in tbl : x.processing},
                      to \in {"handle", "delete"}} :
        /\ \A t1 \in T : \A t2 \in T : t1.id = t2.id => t1 = t2
        /\ Cardinality({t \in T : t.tp = general /\ t.pc = "handle"})
              <= generalWorkerCnt
        /\ Cardinality({t \in T : t.tp = reorg /\ t.pc = "handle"})
              <= reorgWorkerCnt}

\* the record kept of a call of getJob: its class, whether a statement of it
\* failed, the ID of the job returned and whether getJob marked it
GetCall(tp, err, id, mark) == [tp |-> tp, err |-> err, id |-> id, mark |-> mark]

NoGet == GetCall("none", FALSE, NoJob, FALSE)

\* d.getJob for the class tp, called by loadDDLJobAndRun once it has a
\* worker of that class. sqlErr: a statement of it fails.
GetJobOf(tp) ==
    /\ pool[tp] > 0
    /\ \E sqlErr \in BOOLEAN :
         LET g == getJob(jobs, tp, runningJobs)
         IN IF sqlErr
              THEN /\ lastGet' = GetCall(tp, TRUE, NoJob, FALSE)
                   /\ UNCHANGED jobs
              ELSE /\ lastGet' = GetCall(tp, FALSE, g.id, g.mark)
                   /\ jobs' = IF g.mark THEN markJobProcessing(jobs, g.id)
                               ELSE jobs
    /\ UNCHANGED <<nextJobID, runningJobs, pool, tasks, dpc, once, isOwner,
                   enableConcurrentDDL, waiting, ctxDone, inherited, nextDue>>
    /\ UNCHANGED <<kv, reorgTbl, lastMove, lastIDs>>
    /\ UNCHANGED txnVars

getGeneralJob == GetJobOf(general)

getReorgJob == GetJobOf(reorg)

NextPick ==
    \/ getGeneralJob
    \/ getReorgJob

(***************************************************************************)
(* The ID strings of a multi-target job                                    *)
(***************************************************************************)
\* the IDs a schema or table ID list of a job is drawn from
IDSet == {7, 9, 10}

\* the ID lists of at most n entries, in any order, with repetitions
IDLists(n) == UNION {[1..k -> IDSet] : k \in 1..n}

MultiTargetTypes ==
    {ActionExchangeTablePartition, ActionRenameTables, ActionRenameTable}

\* the multi-target jobs whose ID lists have at most n entries
MultiTargetJobs(n) ==
    {[Type |-> tp, SchemaID |-> sids[1], TableID |-> tids[1],
      CtxVars |-> <<sids, tids>>] :
        tp \in MultiTargetTypes, sids \in IDLists(n), tids \in IDLists(n)}

\* a job, the two strings job2SchemaIDs and job2TableIDs returned for it,
\* and the number of calls made: none yet, one on the job, or a second one
\* on the job whose lists are the strings of the first
IDsCall(job, schema_ids, table_ids, calls) ==
    [job |-> job, schema_ids |-> schema_ids, table_ids |-> table_ids,
     calls |-> calls]

NoIDs ==
    IDsCall([Type |-> "none", SchemaID |-> 0, TableID |-> 0,
             CtxVars |-> <<(<<>>), (<<>>)>>], <<>>, <<>>, 0)

\* the two ID strings of the job, as insertDDLJobs2Table asks for them
Job2IDs ==
    /\ lastIDs.calls = 0
    /\ lastIDs.job.Type \in MultiTargetTypes
    /\ lastIDs' = IDsCall(lastIDs.job, job2SchemaIDs(lastIDs.job),
                          job2TableIDs(lastIDs.job), 1)
    /\ UNCHANGED <<kv, reorgTbl, lastMove, lastGet>>
    /\ UNCHANGED txnVars
    /\ UNCHANGED ddlVars

\* the two ID strings of the job whose lists are the strings just returned
Job2IDsAgain ==
    /\ lastIDs.calls = 1
    /\ LET job == [lastIDs.job EXCEPT
                      !.CtxVars = <<lastIDs.schema_ids, lastIDs.table_ids>>]
       IN lastIDs' = IDsCall(job, job2SchemaIDs(job), job2TableIDs(job), 2)
    /\ UNCHANGED <<kv, reorgTbl, lastMove, lastGet>>
    /\ UNCHANGED txnVars
    /\ UNCHANGED ddlVars

NextIDs ==
    \/ Job2IDs
    \/ Job2IDsAgain

\* the variants of a queued job: not started, or started; a started
\* reorganization may have stored a handle
QueuedJobs(id) ==
    {[job |-> [ID |-> id, Type |-> sh.Type, SchemaID |-> sh.SchemaID,
               TableID |-> sh.TableID, CtxVars |-> sh.CtxVars, State |-> state],
      handle |-> handle] :
        sh \in QueueShapes, state \in {"queueing", "running"},
        handle \in BOOLEAN}

\* the legacy states with the jobs 1..n queued, each in the queue of its
\* class, in the order of their IDs
RECURSIVE LegacyKVs(_)
LegacyKVs(n) ==
    IF n = 0
        THEN {[general |-> <<>>, reorg |-> <<>>, handles |-> {}, flag |-> FALSE]}
    ELSE {LET list == IF MayNeedReorg(q.job) THEN reorg ELSE general
          IN [k EXCEPT ![list] = Append(@, q.job),
                       !.handles = IF q.handle
                                     THEN @ \cup {ReorgHandle(q.job)} ELSE @] :
            k \in LegacyKVs(n - 1),
            q \in {x \in QueuedJobs(n) :
                     x.handle => (MayNeedReorg(x.job) /\ x.job.State = "running")}}

\* A session with a fresh LazyTxn, on either kind of store, whose session
\* variables may still hold the start timestamp of an earlier transaction; a
\* dispatcher that has not started.
InitTxn ==
    /\ txn = InitLazyTxn
    /\ sessStartTS \in {0, 5}
    /\ pc = "idle"
    /\ originState = TxnIdle
    /\ lastCall = Call("none", "nil", FALSE, InitLazyTxn)
    /\ stmts = 0
    /\ passed = <<>>
    /\ store \in {"unistore", "tikv"}
    /\ jobs = {}
    /\ nextJobID = 1
    /\ runningJobs = {}
    /\ pool = [tp \in {general, reorg} |->
                 IF tp = general THEN generalWorkerCnt ELSE reorgWorkerCnt]
    /\ tasks = {}
    /\ dpc = "top"
    /\ once = TRUE
    /\ isOwner = TRUE
    /\ enableConcurrentDDL = TRUE
    /\ waiting = FALSE
    /\ ctxDone = FALSE
    /\ inherited = {}
    /\ nextDue = DueOff
    /\ kv = ConcurrentKV
    /\ reorgTbl = {}
    /\ lastMove = NoMove
    /\ lastIDs = NoIDs
    /\ lastGet = NoGet

\* The dispatch loop starts on a node with an empty job table, an empty
\* running-job set and full worker pools; the session is idle.
InitDDL ==
    /\ txn = InitLazyTxn
    /\ sessStartTS = 0
    /\ pc = "idle"
    /\ originState = TxnIdle
    /\ lastCall = Call("none", "nil", FALSE, InitLazyTxn)
    /\ stmts = 0
    /\ passed = <<>>
    /\ store = "tikv"
    /\ jobs = {}
    /\ nextJobID = 1
    /\ runningJobs = {}
    /\ pool = [tp \in {general, reorg} |->
                 IF tp = general THEN generalWorkerCnt ELSE reorgWorkerCnt]
    /\ tasks = {}
    /\ dpc = "top"
    /\ once = TRUE
    /\ isOwner = TRUE
    /\ enableConcurrentDDL = TRUE
    /\ waiting = FALSE
    /\ ctxDone = FALSE
    /\ inherited = {}
    /\ nextDue = DueOff
    /\ kv = ConcurrentKV
    /\ reorgTbl = {}
    /\ lastMove = NoMove
    /\ lastIDs = NoIDs
    /\ lastGet = NoGet

\* the statements a transaction has already run when the model picks it up
HistoryLens == {0, maxTransactionStmtHistory - 1}

\* TxnInfo after n statements, each with a digest of its own, have started
\* and ended on a LazyTxn that holds no transaction yet
AfterStmts(n) ==
    IF n = 0 THEN InitLazyTxn
    ELSE [InitLazyTxn EXCEPT !.mu.LastStateChangeTime = 1,
                             !.mu.AllSQLDigests = [i \in 1..n |-> i]]

\* the LazyTxn on entry to the last onStmtEnd of those n statements
BeforeLastStmtEnd(n) ==
    [AfterStmts(n) EXCEPT !.mu.State = TxnRunning, !.mu.CurrentSQLDigest = n]

\* A session whose LazyTxn has run a number of statements, none or one fewer
\* than the history holds, since TxnInfo was last zeroed.
InitStmt ==
    /\ \E n \in HistoryLens :
         /\ txn = AfterStmts(n)
         /\ passed = [i \in 1..n |-> i]
         /\ lastCall = IF n = 0 THEN Call("none", "nil", FALSE, InitLazyTxn)
                       ELSE Call("onStmtEnd", "nil", FALSE, BeforeLastStmtEnd(n))
    /\ sessStartTS = 0
    /\ pc = "idle"
    /\ originState = TxnIdle
    /\ stmts = 0
    /\ store = "tikv"
    /\ jobs = {}
    /\ nextJobID = 1
    /\ runningJobs = {}
    /\ pool = [tp \in {general, reorg} |->
                 IF tp = general THEN generalWorkerCnt ELSE reorgWorkerCnt]
    /\ tasks = {}
    /\ dpc = "top"
    /\ once = TRUE
    /\ isOwner = TRUE
    /\ enableConcurrentDDL = TRUE
    /\ waiting = FALSE
    /\ ctxDone = FALSE
    /\ inherited = {}
    /\ nextDue = DueOff
    /\ kv = ConcurrentKV
    /\ reorgTbl = {}
    /\ lastMove = NoMove
    /\ lastIDs = NoIDs
    /\ lastGet = NoGet

\* A node becomes the owner and starts its dispatch loop on a table in which
\* the previous owner, now gone, left job 1 with processing=1.
InitOwner ==
    /\ txn = InitLazyTxn
    /\ sessStartTS = 0
    /\ pc = "idle"
    /\ originState = TxnIdle
    /\ lastCall = Call("none", "nil", FALSE, InitLazyTxn)
    /\ stmts = 0
    /\ passed = <<>>
    /\ store = "tikv"
    /\ \E sh \in JobShapes :
         jobs = {JobRow([ID |-> 1, Type |-> sh.Type, SchemaID |-> sh.SchemaID,
                         TableID |-> sh.TableID, CtxVars |-> sh.CtxVars,
                         State |-> "running"])}
    /\ nextJobID = 2
    /\ runningJobs = {}
    /\ pool = [tp \in {general, reorg} |->
                 IF tp = general THEN generalWorkerCnt ELSE reorgWorkerCnt]
    /\ tasks = {}
    /\ dpc = "top"
    /\ once = TRUE
    /\ isOwner = TRUE
    /\ enableConcurrentDDL = TRUE
    /\ waiting = FALSE
    /\ ctxDone = FALSE
    /\ inherited = {1}
    /\ nextDue = DueOff
    /\ kv = ConcurrentKV
    /\ reorgTbl = {}
    /\ lastMove = NoMove
    /\ lastIDs = NoIDs
    /\ lastGet = NoGet

\* A cluster that runs DDL through the legacy queues, with up to MaxQueued
\* jobs queued and both tables empty; no dispatcher of the job table runs.
InitMove ==
    /\ txn = InitLazyTxn
    /\ sessStartTS = 0
    /\ pc = "idle"
    /\ originState = TxnIdle
    /\ lastCall = Call("none", "nil", FALSE, InitLazyTxn)
    /\ stmts = 0
    /\ passed = <<>>
    /\ store = "tikv"
    /\ jobs = {}
    /\ \E n \in 0..MaxQueued :
         /\ kv \in LegacyKVs(n)
         /\ nextJobID = n + 1
    /\ runningJobs = {}
    /\ pool = [tp \in {general, reorg} |->
                 IF tp = general THEN generalWorkerCnt ELSE reorgWorkerCnt]
    /\ tasks = {}
    /\ dpc = "top"
    /\ once = TRUE
    /\ isOwner = TRUE
    /\ enableConcurrentDDL = FALSE
    /\ waiting = FALSE
    /\ ctxDone = FALSE
    /\ inherited = {}
    /\ nextDue = DueOff
    /\ reorgTbl = {}
    /\ lastMove = NoMove
    /\ lastIDs = NoIDs
    /\ lastGet = NoGet

\* a multi-target job that has not been given to job2SchemaIDs or
\* job2TableIDs yet
InitIDs ==
    /\ txn = InitLazyTxn
    /\ sessStartTS = 0
    /\ pc = "idle"
    /\ originState = TxnIdle
    /\ lastCall = Call("none", "nil", FALSE, InitLazyTxn)
    /\ stmts = 0
    /\ passed = <<>>
    /\ store = "tikv"
    /\ jobs = {}
    /\ nextJobID = 1
    /\ runningJobs = {}
    /\ pool = [tp \in {general, reorg} |->
                 IF tp = general THEN generalWorkerCnt ELSE reorgWorkerCnt]
    /\ tasks = {}
    /\ dpc = "top"
    /\ once = TRUE
    /\ isOwner = TRUE
    /\ enableConcurrentDDL = TRUE
    /\ waiting = FALSE
    /\ ctxDone = FALSE
    /\ inherited = {}
    /\ nextDue = DueOff
    /\ kv = ConcurrentKV
    /\ reorgTbl = {}
    /\ lastMove = NoMove
    /\ lastIDs \in {IDsCall(job, <<>>, <<>>, 0) : job \in MultiTargetJobs(MaxIDs)}
    /\ lastGet = NoGet

\* a dispatcher facing a table of waiting and processing jobs, some of the
\* processing ones held by no worker
InitPick ==
    /\ txn = InitLazyTxn
    /\ sessStartTS = 0
    /\ pc = "idle"
    /\ originState = TxnIdle
    /\ lastCall = Call("none", "nil", FALSE, InitLazyTxn)
    /\ stmts = 0
    /\ passed = <<>>
    /\ store = "tikv"
    /\ jobs \in UNION {JobTables(n) : n \in 1..MaxRows}
    /\ nextJobID = Cardinality(jobs) + 1
    /\ tasks \in TasksOn(jobs)
    /\ runningJobs = {t.id : t \in tasks}
    /\ pool = [tp \in {general, reorg} |->
                 (IF tp = general THEN generalWorkerCnt ELSE reorgWorkerCnt)
                 - Cardinality({t \in tasks : t.tp = tp /\ t.pc = "handle"})]
    /\ dpc = "top"
    /\ once = TRUE
    /\ isOwner = TRUE
    /\ enableConcurrentDDL = TRUE
    /\ waiting = FALSE
    /\ ctxDone = FALSE
    /\ inherited = {r.job_id : r \in {x \in jobs : x.processing}} \ runningJobs
    /\ nextDue = DueOff
    /\ kv = ConcurrentKV
    /\ reorgTbl = {}
    /\ lastMove = NoMove
    /\ lastIDs = NoIDs
    /\ lastGet = NoGet

\* The owner has delivered job 1, a reorganization, whose task is waiting
\* for the schema sync; the history of the once flag is kept from here on.
InitOnce ==
    /\ txn = InitLazyTxn
    /\ sessStartTS = 0
    /\ pc = "idle"
    /\ originState = TxnIdle
    /\ lastCall = Call("none", "nil", FALSE, InitLazyTxn)
    /\ stmts = 0
    /\ passed = <<>>
    /\ store = "tikv"
    /\ jobs = {[JobRow([ID |-> 1, Type |-> ActionAddIndex, SchemaID |-> 4,
                         TableID |-> 8, CtxVars |-> <<>>,
                         State |-> "queueing"]) EXCEPT !.processing = TRUE]}
    /\ nextJobID = 2
    /\ runningJobs = {1}
    /\ tasks = {[id |-> r.job_id, tp |-> ClassOfRow(r), pc |-> "sync"] : r \in jobs}
    /\ pool = [tp \in {general, reorg} |->
                 (IF tp = general THEN generalWorkerCnt ELSE reorgWorkerCnt)
                 - Cardinality({t \in tasks : t.tp = tp})]
    /\ dpc = "top"
    /\ once = TRUE
    /\ isOwner = TRUE
    /\ enableConcurrentDDL = TRUE
    /\ waiting = FALSE
    /\ ctxDone = FALSE
    /\ inherited = {}
    /\ nextDue = NoDue
    /\ kv = ConcurrentKV
    /\ reorgTbl = {}
    /\ lastMove = NoMove
    /\ lastIDs = NoIDs
    /\ lastGet = NoGet

(***************************************************************************)
(* Specifications                                                          *)
(***************************************************************************)
\* the LazyTxn of a session, with no DDL going on
TxnSpec == InitTxn /\ [][NextTxn]_vars

\* the dispatcher of one node, with the session left alone
DDLSpec == InitDDL /\ [][NextDDL]_vars

\* the dispatcher of a node that takes over from another owner
OwnerSpec == InitOwner /\ [][NextDDL]_vars

\* the migrations between the legacy queues and the tables
MoveSpec == InitMove /\ [][NextMove]_vars

\* the dispatcher from the first delivery on, with the history of once
OnceSpec == InitOnce /\ [][NextDDL]_vars

\* The dispatch loop on a node that stays the owner with concurrent DDL
\* enabled, that is not waiting and whose context is not cancelled.
NextLive ==
    \/ Enqueue
    \/ DispatchTop
    \/ DispatchSelect
    \/ LoadGeneral
    \/ LoadReorg
    \/ TaskStart
    \/ TaskSynced
    \/ TaskHandle
    \/ TaskPut
    \/ TaskDelete

\* the ticker of the select fires: the loop goes on to load jobs
TickerWakes == DispatchSelect /\ dpc' = "general"

\* a step of the task that holds the job id
TaskStepOf(id) ==
    /\ TaskStart \/ TaskSynced \/ TaskHandle \/ TaskPut \/ TaskDelete
    /\ \E t \in tasks : t.id = id /\ t \notin tasks'

\* HandleDDLJobTable finishes the job id and deletes its row
JobFinished(id) ==
    /\ TaskHandle
    /\ \E r \in jobs : r.job_id = id
    /\ \A r \in jobs' : r.job_id # id

\* The goroutine of the loop and the goroutines of the tasks are scheduled:
\* the loop goes round, the select takes the ticker case again and again
\* when it is ready again and again, every task runs to its end, and a job
\* that is handled again and again finishes.
LiveFair ==
    /\ WF_vars(DispatchTop)
    /\ SF_vars(TickerWakes)
    /\ WF_vars(LoadGeneral)
    /\ WF_vars(LoadReorg)
    /\ \A id \in 1..MaxJobs : WF_vars(TaskStepOf(id))
    /\ \A id \in 1..MaxJobs : SF_vars(JobFinished(id))

LiveSpec == InitDDL /\ [][NextLive]_vars /\ LiveFair

\* getJob on the job tables of a few jobs
PickSpec == InitPick /\ [][NextPick]_vars

\* the ID strings of multi-target jobs
IDSpec == InitIDs /\ [][NextIDs]_vars

\* the LazyTxn of a session late in a long transaction
StmtSpec == InitStmt /\ [][NextTxn]_vars

(***************************************************************************)
(* Properties of the LazyTxn                                               *)
(***************************************************************************)

\* C1: the KV-transaction slot and the future slot are never both set: the
\* LazyTxn is always Invalid, Pending or Valid.
C1_ThreeStates ==
    /\ ~(~txn.Transaction.nil /\ txn.txnFuture # "nil")
    /\ Invalid(txn) \/ pending(txn) \/ Valid(txn)

\* a Pending LazyTxn has been promoted by Wait
C1_Witness ==
    /\ lastCall.op = "Wait"
    /\ lastCall.pre.txnFuture # "nil"
    /\ ~txn.Transaction.nil

\* the number of writes of the current statement, read off the write buffer
StagedWrites(l) == Len(l.Transaction.buf) - l.initCnt

\* C2: Commit on a Valid LazyTxn with a non-empty mutations map or a non-zero
\* countHint returns the invalid-transaction error, makes no KV commit and
\* leaves the LazyTxn Invalid.
C2_CommitPreconditionViolated ==
    (/\ lastCall.op = "Commit"
     /\ lastCall.pre.mutations # {} \/ StagedWrites(lastCall.pre) # 0)
    => /\ lastCall.err = "ErrInvalidTxn"
       /\ ~lastCall.kvCalled
       /\ Invalid(txn)

\* Commit was refused for staged writes alone
C2_Witness ==
    /\ lastCall.op = "Commit"
    /\ lastCall.pre.mutations = {}
    /\ StagedWrites(lastCall.pre) # 0
    /\ lastCall.err = "ErrInvalidTxn"

\* C3: after Commit or Rollback on a Valid LazyTxn has returned, with success
\* or with an error, there is no transaction and no future, the staging handle
\* is the invalid sentinel, the mutations map is empty and TxnInfo is zeroed.
C3_InvalidAfterCommitOrRollback ==
    lastCall.op \in {"Commit", "Rollback"}
    => /\ txn.Transaction = NilTransaction
       /\ txn.txnFuture = "nil"
       /\ txn.stagingHandle = InvalidStagingHandle
       /\ txn.mutations = {}
       /\ txn.mu = ZeroTxnInfo

\* a Rollback of a transaction with staged writes and mutations has returned
\* the error of the KV rollback
C3_Witness ==
    /\ lastCall.op = "Rollback"
    /\ lastCall.err = "kvErr"
    /\ lastCall.pre.mutations # {}
    /\ StagedWrites(lastCall.pre) # 0
    /\ lastCall.pre.mu.StartTS # 0

\* C10: when LockKeys returns, TxnInfo.state is the state LockKeys was entered
\* in and blockStartTime is not valid; while the KV lock call is in progress
\* the state is LockAcquiring and blockStartTime is valid.
C10_LockKeysRestoresState ==
    /\ lastCall.op = "LockKeys"
        => /\ txn.mu.State = lastCall.pre.mu.State
           /\ ~txn.mu.BlockStartTimeValid
    /\ pc = "LockKeys"
        => /\ txn.mu.State = TxnLockAcquiring
           /\ txn.mu.BlockStartTimeValid

\* LockKeys entered in state Running has returned an error
C10_Witness ==
    /\ lastCall.op = "LockKeys"
    /\ lastCall.err = "kvErr"
    /\ lastCall.pre.mu.State = TxnRunning
    /\ txn.mu.State = TxnRunning

\* C11: after each onStmtEnd, whatever ran since the onStmtStart before it
\* (LockKeys included), TxnInfo.state is Idle and currentSQLDigest is empty.
C11_IdleAfterStmtEnd ==
    lastCall.op = "onStmtEnd"
    => /\ txn.mu.State = TxnIdle
       /\ txn.mu.CurrentSQLDigest = 0

\* onStmtEnd has closed a statement that was Running with a digest, in a
\* transaction whose entry counters were refreshed while it ran
C11_Witness ==
    /\ lastCall.op = "onStmtEnd"
    /\ lastCall.pre.mu.State = TxnRunning
    /\ lastCall.pre.mu.CurrentSQLDigest # 0
    /\ lastCall.pre.mu.EntriesCount > 0
    /\ txn.mu.State = TxnIdle

Min(a, b) == IF a < b THEN a ELSE b

\* C12: allSQLDigests never holds more than 50 entries and is the first
\* min(n, 50) of the n non-empty digests passed to onStmtStart since TxnInfo
\* was last zeroed, in call order; and each onStmtStart with a non-empty digest
\* leaves that digest in currentSQLDigest.
C12_DigestHistory ==
    /\ [](/\ Len(txn.mu.AllSQLDigests) <= 50
          /\ txn.mu.AllSQLDigests = SubSeq(passed, 1, Min(Len(passed), 50)))
    /\ [][(passed' # passed /\ passed' # <<>>)
            => txn'.mu.CurrentSQLDigest = passed'[Len(passed')]]_vars

\* the 51st digest of a transaction has been passed and dropped
C12_Witness ==
    /\ lastCall.op = "onStmtStart"
    /\ Len(passed) = 51
    /\ Len(txn.mu.AllSQLDigests) = 50
    /\ txn.mu.AllSQLDigests[50] = 50
    /\ txn.mu.CurrentSQLDigest = 51

\* C18: Wait on a Pending LazyTxn whose future fails returns the error and
\* leaves the LazyTxn Invalid, with no staging handle and the session's
\* startTS 0; Wait on a Valid LazyTxn returns it with no error and changes
\* neither the LazyTxn nor the session's startTS; Wait on an Invalid LazyTxn
\* returns the invalid-transaction error.
C18_WaitOutcomes ==
    /\ [](lastCall.op = "Wait" =>
            /\ Invalid(lastCall.pre) => lastCall.err = "ErrInvalidTxn"
            /\ Valid(lastCall.pre) => lastCall.err = "nil" /\ txn = lastCall.pre
            /\ (pending(lastCall.pre) /\ lastCall.err # "nil") =>
                  /\ lastCall.err = "err"
                  /\ Invalid(txn)
                  /\ txn.stagingHandle = InvalidStagingHandle
                  /\ txn.Transaction.stages = <<>>
                  /\ sessStartTS = 0)
    /\ [][(lastCall'.op = "Wait" /\ lastCall'.pre = txn /\ Valid(txn)
            /\ lastCall' # lastCall)
           => (txn' = txn /\ sessStartTS' = sessStartTS)]_vars

\* a Wait whose future failed has returned, on a LazyTxn that had recorded
\* a statement while pending
C18_Witness ==
    /\ lastCall.op = "Wait"
    /\ pending(lastCall.pre)
    /\ lastCall.err = "err"
    /\ lastCall.pre.mu.AllSQLDigests # <<>>
    /\ Invalid(txn)
    /\ sessStartTS = 0

\* C19: at most one statement-level staging frame opened by the LazyTxn is
\* open on the write buffer, the LazyTxn's stagingHandle refers to it, and
\* the stagingHandle is the invalid handle when no frame is open.
C19_OneStagingFrame ==
    /\ Len(txn.Transaction.stages) <= 1
    /\ Len(txn.Transaction.stages) = 1 => txn.stagingHandle = 1
    /\ Len(txn.Transaction.stages) = 0 =>
          txn.stagingHandle = InvalidStagingHandle

\* RollbackMemDBToCheckpoint has dropped a write and left one frame open
C19_Witness ==
    /\ lastCall.op = "RollbackMemDBToCheckpoint"
    /\ MemLen(txn.Transaction) < MemLen(lastCall.pre.Transaction)
    /\ Len(txn.Transaction.stages) = 1
    /\ txn.stagingHandle = 1

\* the last call ended a statement on a Valid LazyTxn
StmtEnded ==
    /\ lastCall.op \in {"StmtCommit", "StmtRollback"}
    /\ Valid(lastCall.pre)

\* C21: on a Valid LazyTxn, after a statement ended with StmtCommit or
\* StmtRollback, countHint is 0 and the mutations map is empty, and a Commit
\* issued then passes the precondition check and calls the KV commit.
C21_CommitAfterStmtEnd ==
    /\ [](StmtEnded =>
            /\ Valid(txn)
            /\ countHint(txn) = 0
            /\ txn.mutations = {}
            /\ commitPrecondition(txn))
    /\ [][(StmtEnded /\ lastCall'.op \in {"Commit", "kvCommit"})
           => (lastCall'.op = "kvCommit" /\ lastCall'.kvCalled
               /\ pc' = "Commit")]_vars

\* a StmtCommit has ended a statement that had written a key and recorded
\* a mutation
C21_Witness ==
    /\ StmtEnded
    /\ lastCall.op = "StmtCommit"
    /\ countHint(lastCall.pre) > 0
    /\ lastCall.pre.mutations # {}
    /\ countHint(txn) = 0

\* the buffer length at which the open staging frame of l was opened
FrameStart(l) == l.Transaction.stages[l.stagingHandle]

\* C22: StmtRollback removes exactly the entries written since the
\* statement's staging frame was opened and leaves the earlier entries as
\* they were; StmtCommit keeps every entry, those of the statement included.
C22_StmtWritesKeptIffCommitted ==
    /\ (lastCall.op = "StmtRollback" /\ Valid(lastCall.pre)) =>
          txn.Transaction.buf =
              SubSeq(lastCall.pre.Transaction.buf, 1, FrameStart(lastCall.pre))
    /\ (lastCall.op = "StmtCommit" /\ Valid(lastCall.pre)) =>
          txn.Transaction.buf = lastCall.pre.Transaction.buf

\* a StmtRollback has dropped the write of its statement and kept the write
\* of an earlier, committed statement
C22_Witness ==
    /\ lastCall.op = "StmtRollback"
    /\ Valid(lastCall.pre)
    /\ FrameStart(lastCall.pre) = 1
    /\ MemLen(lastCall.pre.Transaction) = 2
    /\ MemLen(txn.Transaction) = 1

(***************************************************************************)
(* Properties of the dispatcher                                            *)
(***************************************************************************)
Processing == {r \in jobs : r.processing}

SharesID(a, b) == Range(a) \cap Range(b) # {}

\* C4: no two distinct rows of the job table with processing=1 share a table
\* ID.
C4_ProcessingRowsDisjoint ==
    \A r1 \in Processing : \A r2 \in Processing :
        r1 # r2 => ~SharesID(r1.table_ids, r2.table_ids)

\* C5: whenever the general filter returns true for a candidate (the row is
\* then marked processing), no row with processing=1 shares a table ID with a
\* non-DropSchema candidate, and none has the schema ID of a DropSchema
\* candidate in its schema-ID set.
C5_GeneralRunnableMeansDisjoint ==
    [][\A g \in jobs :
         (/\ ~g.reorg
          /\ ~g.processing
          /\ \E g2 \in jobs' : g2.job_id = g.job_id /\ g2.processing)
         => IF g.type = ActionDropSchema
              THEN \A r \in Processing :
                     ~SharesID(<<g.job_meta.SchemaID>>, r.schema_ids)
              ELSE \A r \in Processing : ~SharesID(g.table_ids, r.table_ids)]_vars

\* the IDs of the running-job set that belong to the class tp
RunningOf(tp) == {id \in runningJobs : \E t \in tasks : t.id = id /\ t.tp = tp}

\* C6: the running-job set never holds more than one general job ID and one
\* reorg job ID.
C6_OneInFlightPerClass ==
    /\ Cardinality(RunningOf(general)) <= 1
    /\ Cardinality(RunningOf(reorg)) <= 1

\* C7: getJob never returns a job whose ID is in the running-job set, every
\* task's job ID stays in the running-job set until the task ends, and no job
\* is held by two tasks.
C7_OneTaskPerJob ==
    /\ [](\A t \in tasks : t.id \in runningJobs)
    /\ [](\A t1 \in tasks : \A t2 \in tasks : t1.id = t2.id => t1 = t2)
    /\ [][\A t \in tasks' : t.pc = "start" /\ t \notin tasks
            => t.id \notin runningJobs]_vars

\* a general and a reorg job are each being handled by a task
C7_Witness ==
    /\ \E t1 \in tasks : \E t2 \in tasks :
         t1.tp = general /\ t2.tp = reorg /\ t1.pc = "handle" /\ t2.pc = "handle"
    /\ Cardinality(runningJobs) = 2

\* C8: while a DropSchema job for schema S is processing, no other job whose
\* schema-ID set contains S is processing or held by a worker.
C8_DropSchemaSerializes ==
    \A d \in Processing :
        d.type = ActionDropSchema
        => \A j \in jobs :
             (j # d /\ SharesID(<<d.job_meta.SchemaID>>, j.schema_ids))
             => ~j.processing /\ j.job_id \notin runningJobs

ClassOf(r) == IF r.reorg THEN reorg ELSE general

\* C13 as stated: every row with processing=1 either has its ID in the
\* running-job set, or was left behind by a previous owner and is the job the
\* next selection of its class returns.
C13_ProcessingRunningOrLeftBehind ==
    \A r \in Processing :
        \/ r.job_id \in runningJobs
        \/ /\ r.job_id \in inherited
           /\ getJob(jobs, ClassOf(r), runningJobs).id = r.job_id

\* C13, amended: every row with processing=1 either has its ID in the
\* running-job set, or is held by no worker (left behind by a previous owner,
\* or between two deliveries of the job on this owner); then the next selection
\* of its class returns, without evaluating the filter, that row or an older
\* row with processing=1.
C13_ProcessingRunningOrPickedNext ==
    \A r \in Processing :
        r.job_id \notin runningJobs
        => LET g == getJob(jobs, ClassOf(r), runningJobs)
           IN /\ g.id # NoJob
              /\ ~g.mark
              /\ g.id <= r.job_id
              /\ \E r2 \in Processing : r2.job_id = g.id

\* job 1, left behind, was delivered by this owner and its task has ended
\* with the row still in the table, while a younger job of its class waits:
\* the next selection returns job 1
C13_Witness ==
    /\ tasks = {}
    /\ runningJobs = {}
    /\ inherited = {}
    /\ \E r1 \in Processing : \E r2 \in jobs :
         /\ r1.job_id = 1 /\ r2.job_id = 2
         /\ ~r2.processing
         /\ ClassOf(r1) = ClassOf(r2)
         /\ getJob(jobs, ClassOf(r1), runningJobs) = [id |-> 1, mark |-> FALSE]
\* C14: a step of the dispatcher that marks a row processing, or delivers a
\* job to a worker, is taken only while the node is the owner, concurrent DDL
\* is enabled and the waiting flag is clear.
C14_OnlyOwnerDispatches ==
    [][(\/ \E t \in tasks' : t.pc = "start" /\ t \notin tasks
        \/ \E r \in jobs : \E r2 \in jobs' :
              r2.job_id = r.job_id /\ ~r.processing /\ r2.processing)
       => (isOwner /\ enableConcurrentDDL /\ ~waiting)]_vars
\* the job table holds exactly the general job g on table 7 and the
\* reorganization r on table 8
GeneralAndReorg(g, r) ==
    /\ jobs = {g, r}
    /\ ~g.reorg /\ g.type # ActionDropSchema /\ g.table_ids = <<7>>
    /\ r.reorg /\ r.table_ids = <<8>>

\* C20: with a general job G on table 7 and a reorg job R on table 8 in the
\* table, in the same schema or not, both are runnable: each, until it is
\* picked, passes the filter of its class whether or not the other is
\* processing, and is the job getJob returns for its class unless a worker
\* already holds it.
C20_BothRunnable ==
    \A g \in jobs : \A r \in jobs :
        GeneralAndReorg(g, r) =>
            /\ ~g.processing => generalFilter(jobs, g.job_meta)
            /\ ~r.processing => reorgFilter(jobs, r.job_meta)
            /\ g.job_id \notin runningJobs =>
                  getJob(jobs, general, runningJobs).id = g.job_id
            /\ r.job_id \notin runningJobs =>
                  getJob(jobs, reorg, runningJobs).id = r.job_id

\* G is held by the general worker and R, of the same schema, by the reorg
\* worker at the same time
C20_Witness ==
    \E g \in jobs : \E r \in jobs :
        /\ GeneralAndReorg(g, r)
        /\ g.schema_ids = r.schema_ids
        /\ [id |-> g.job_id, tp |-> general, pc |-> "handle"] \in tasks
        /\ [id |-> r.job_id, tp |-> reorg, pc |-> "handle"] \in tasks
        /\ pool[general] = 0 /\ pool[reorg] = 0
        /\ runningJobs = {g.job_id, r.job_id}

\* the rows are in the order processing descending, job ID ascending
ProcessingFirstThenByID(rows) ==
    \A i \in 1..Len(rows) : \A j \in 1..Len(rows) :
        i < j =>
            /\ rows[j].processing => rows[i].processing
            /\ rows[i].processing = rows[j].processing =>
                  rows[i].job_id < rows[j].job_id

\* getJob stops at the row: it is already processing or passes the filter
\* of the class tp
StopsAt(tp, row) == row.processing \/ filterOf(tp, jobs, row.job_meta)

\* C23: getJob scans the candidates in the order processing descending, job
\* ID ascending and returns the first that is already processing or passes
\* the filter; a processing candidate is returned, whatever the filter says of
\* it, without being marked again, and a job that was not processing is
\* returned, and marked, only when no candidate is processing.
C23_FirstProcessingOrRunnable ==
    [][(lastGet' # lastGet /\ ~lastGet'.err) =>
          LET tp == lastGet'.tp
              rows == getJobSQL(jobs, tp, runningJobs)
          IN /\ ProcessingFirstThenByID(rows)
             /\ lastGet'.id = NoJob =>
                   /\ \A i \in 1..Len(rows) : ~StopsAt(tp, rows[i])
                   /\ jobs' = jobs
             /\ lastGet'.id # NoJob =>
                   \E i \in 1..Len(rows) :
                       /\ rows[i].job_id = lastGet'.id
                       /\ StopsAt(tp, rows[i])
                       /\ \A j \in 1..(i - 1) : ~StopsAt(tp, rows[j])
                       /\ lastGet'.mark = ~rows[i].processing
                       /\ rows[i].processing => jobs' = jobs
                       /\ ~rows[i].processing =>
                             /\ jobs' = markJobProcessing(jobs, lastGet'.id)
                             /\ \A j \in 1..Len(rows) : ~rows[j].processing]_vars

\* getJob has returned job 2, already processing and failing the filter,
\* ahead of the waiting job 1 of the same class, which passes it
C23_Witness ==
    /\ lastGet.id = 2 /\ ~lastGet.mark /\ ~lastGet.err
    /\ 2 \notin runningJobs
    /\ \E r1 \in jobs : \E r2 \in jobs :
         /\ r1.job_id = 1 /\ r2.job_id = 2
         /\ ~r1.processing /\ r2.processing
         /\ ClassOfRow(r1) = lastGet.tp /\ ClassOfRow(r2) = lastGet.tp
         /\ r1.job_id \in MinJobIDs(jobs) /\ r2.job_id \in MinJobIDs(jobs)
         /\ filterOf(lastGet.tp, jobs, r1.job_meta)
         /\ ~filterOf(lastGet.tp, jobs, r2.job_meta)

\* a processing DropSchema row whose schema-ID set holds the schema ID of
\* the candidate c
DropSchemaOfSchema(c) ==
    {r \in jobs : /\ r.processing
                  /\ r.type = ActionDropSchema
                  /\ c.job_meta.SchemaID \in Range(r.schema_ids)}

\* a processing row whose table-ID set holds the table ID of the candidate c
ProcessingOnTable(c) ==
    {r \in jobs : r.processing /\ c.job_meta.TableID \in Range(r.table_ids)}

\* C24: the reorg runnability predicate is true of a candidate exactly when
\* no processing row is a DropSchema job whose schema-ID set contains the
\* candidate's schema ID and no processing row has the candidate's table ID
\* in its table-ID set.
C24_ReorgRunnable ==
    \A c \in {r \in jobs : r.reorg} :
        reorgFilter(jobs, c.job_meta) <=>
            (DropSchemaOfSchema(c) = {} /\ ProcessingOnTable(c) = {})

\* getReorgJob has returned no job: the waiting reorganization is held back
\* by a processing job that names its table among several
C24_Witness ==
    /\ lastGet.tp = reorg /\ ~lastGet.err /\ lastGet.id = NoJob
    /\ \E c \in jobs : \E r \in jobs :
         /\ c.reorg /\ ~c.processing
         /\ c.job_id \in MinJobIDs(jobs) /\ c.job_id \notin runningJobs
         /\ r \in ProcessingOnTable(c)
         /\ Len(r.table_ids) > 1
         /\ ~reorgFilter(jobs, c.job_meta)

\* the task t, at position from, has moved to position to
TaskMoved(t, from, to) ==
    /\ t.pc = from
    /\ tasks' = MoveTask(t, to)

\* the processing row r is a candidate of the class tp, and getJob returns
\* it, or an older processing candidate ahead of it, without marking it
StaysForLater(r, tbl, tp, running) ==
    /\ \E i \in 1..Len(getJobSQL(tbl, tp, running)) :
         getJobSQL(tbl, tp, running)[i] = r
    /\ LET g == getJob(tbl, tp, running)
       IN /\ g.id # NoJob /\ g.id <= r.job_id /\ ~g.mark
          /\ \E r2 \in tbl : r2.job_id = g.id /\ r2.processing

\* C25: when waitSchemaSynced fails in a delivered task, the task does not
\* handle the job; its worker goes back to the pool and the job ID leaves the
\* running set; the failure changes neither the once flag nor the row, which
\* keeps processing=1; and once the task has ended the row is a candidate
\* that the getJob of its class returns without marking it, after any older
\* processing candidate.
C25_SyncFailureLeavesJobForLater ==
    /\ [](\A t \in tasks : t.pc = "syncFailed" =>
              /\ t.id \in runningJobs
              /\ \E r \in Processing : r.job_id = t.id)
    /\ [][\A t \in tasks :
            /\ (t.pc = "sync" /\ t \notin tasks'
                 /\ [t EXCEPT !.pc = "handle"] \notin tasks')
                  => (TaskMoved(t, "sync", "syncFailed")
                      /\ once' = once /\ jobs' = jobs
                      /\ pool' = pool /\ runningJobs' = runningJobs)
            /\ (t.pc = "syncFailed" /\ t \notin tasks')
                  => (TaskMoved(t, "syncFailed", "delete")
                      /\ pool' = [pool EXCEPT ![t.tp] = @ + 1]
                      /\ once' = once /\ jobs' = jobs)
            /\ (t.pc = "delete" /\ t \notin tasks')
                  => (/\ tasks' = tasks \ {t}
                      /\ runningJobs' = runningJobs \ {t.id}
                      /\ once' = once /\ jobs' = jobs
                      /\ \A r \in Processing :
                            r.job_id = t.id =>
                              StaysForLater(r, jobs', t.tp, runningJobs'))]_vars

\* a task whose waitSchemaSynced failed is about to return, the once flag
\* still set and the row of its job processing
C25_Witness ==
    \E t \in tasks :
        /\ t.pc = "syncFailed"
        /\ once
        /\ pool[t.tp] = 0
        /\ t.id \in runningJobs
        /\ \E r \in Processing : r.job_id = t.id

\* C26: after the dispatch loop has set the once flag, the task of the next
\* job delivered waits for the schema sync before it handles the job,
\* whatever the tasks already running do; and once is cleared only by a
\* waitSchemaSynced that succeeded.
C26_NextDeliveryWaitsForSync ==
    [][/\ \A t \in tasks :
            (nextDue = [k |-> "job", id |-> t.id] /\ t.pc = "start"
             /\ t \notin tasks')
                => TaskMoved(t, "start", "sync")
       /\ (once /\ ~once') => \E t \in tasks : TaskMoved(t, "sync", "handle")]_vars

\* the workers of the class tp held by tasks: a task holds its worker from
\* the delivery until the pool.put of its deferred function
HeldBy(tp) ==
    {t \in tasks : t.tp = tp /\ t.pc \in {"start", "sync", "handle", "put",
                                          "syncFailed"}}

WorkerCnt(tp) == IF tp = general THEN generalWorkerCnt ELSE reorgWorkerCnt

\* C27: every worker is either in its pool or held by exactly one task, so
\* none is leaked or put back twice; and a loadDDLJobAndRun that delivers no
\* job leaves the pool and the running-job set as they were.
C27_WorkersConserved ==
    /\ [](\A tp \in {general, reorg} :
              /\ pool[tp] \in 0..WorkerCnt(tp)
              /\ pool[tp] + Cardinality(HeldBy(tp)) = WorkerCnt(tp))
    /\ [][(dpc \in {"general", "reorg"} /\ dpc' # dpc /\ tasks' = tasks)
           => (pool' = pool /\ runningJobs' = runningJobs)]_vars

\* the general worker is back in its pool, its task not yet ended, while
\* the reorg worker is held by a task
C27_Witness ==
    /\ \E t \in tasks : t.tp = general /\ t.pc = "delete"
    /\ pool[general] = generalWorkerCnt
    /\ \E t \in tasks : t.tp = reorg /\ t.pc = "handle"
    /\ pool[reorg] = 0

(***************************************************************************)
(* Properties of the migrations                                            *)
(***************************************************************************)
\* MoveJobFromTable2Queue has succeeded right after a MoveJobFromQueue2Table
\* that succeeded from a legacy state
RoundTripDone ==
    /\ lastMove.op = "Table2Queue"
    /\ ~lastMove.err
    /\ lastMove.follows
    /\ ~lastMove.pre2.kv.flag

\* every job sits in the queue of its class
QueuesMatchClass(k) ==
    /\ \A i \in 1..Len(k.general) : ~MayNeedReorg(k.general[i])
    /\ \A i \in 1..Len(k.reorg) : MayNeedReorg(k.reorg[i])

\* C15 as stated: after the round trip the two queues hold the jobs they held
\* before, each in the queue of its class, the same reorg handles exist, both
\* tables are empty and the flag is cleared.
C15_RoundTripRestoresLegacy ==
    RoundTripDone
    => /\ kv.general = lastMove.pre2.kv.general
       /\ kv.reorg = lastMove.pre2.kv.reorg
       /\ QueuesMatchClass(kv)
       /\ kv.handles = lastMove.pre2.kv.handles
       /\ jobs = {}
       /\ reorgTbl = {}
       /\ ~kv.flag

NotSystemJob(job) == job.SchemaID # systemDBID

\* the jobs of a queue that MoveJobFromQueue2Table moves
Moved(queue, inBootstrap) ==
    IF inBootstrap THEN SelectSeq(queue, NotSystemJob) ELSE queue

\* the handles that MoveJobFromQueue2Table moves
MovedHandles(k, inBootstrap) ==
    {h \in k.handles :
        \E i \in 1..Len(Moved(k.reorg, inBootstrap)) :
            Moved(k.reorg, inBootstrap)[i].ID = h.job_id}

\* C15, amended: after the round trip the two queues hold the jobs they held
\* before, less the jobs of the system database when the move to the table
\* ran in bootstrap, each in the queue of its class; the reorg handles of
\* those jobs exist, both tables are empty and the flag is cleared.
C15_RoundTripRestoresMoved ==
    RoundTripDone
    => /\ kv.general = Moved(lastMove.pre2.kv.general, lastMove.boot2)
       /\ kv.reorg = Moved(lastMove.pre2.kv.reorg, lastMove.boot2)
       /\ QueuesMatchClass(kv)
       /\ kv.handles = MovedHandles(lastMove.pre2.kv, lastMove.boot2)
       /\ jobs = {}
       /\ reorgTbl = {}
       /\ ~kv.flag

\* a round trip outside bootstrap has brought back a general job and a
\* started reorganization with its handle
C15_Witness ==
    /\ RoundTripDone
    /\ ~lastMove.boot2
    /\ Len(kv.general) = 1
    /\ Len(kv.reorg) = 1
    /\ kv.handles # {}
    /\ lastMove.pre.jobs # {}
    /\ lastMove.pre.reorgTbl # {}

\* the IDs of the jobs a state holds in the queues, and in the table
QueuedIDs(st) ==
    {st.kv.general[i].ID : i \in 1..Len(st.kv.general)}
    \cup {st.kv.reorg[i].ID : i \in 1..Len(st.kv.reorg)}

TableIDsOf(st) == {r.job_id : r \in st.jobs}

Dropped ==
    IF lastMove.op = "Queue2Table" /\ lastMove.inBootstrap /\ ~lastMove.err
        THEN {lastMove.pre.kv.general[i].ID :
                i \in {j \in 1..Len(lastMove.pre.kv.general) :
                         ~NotSystemJob(lastMove.pre.kv.general[j])}}
             \cup {lastMove.pre.kv.reorg[i].ID :
                i \in {j \in 1..Len(lastMove.pre.kv.reorg) :
                         ~NotSystemJob(lastMove.pre.kv.reorg[j])}}
    ELSE {}

CanonicalOf(out, in) ==
    /\ Range(out) = Range(in)
    /\ Len(out) = Cardinality(Range(in))
    /\ \A i \in 1..Len(out) : \A j \in 1..Len(out) : i < j => out[i] < out[j]

\* C17: for a multi-target job the schema-ID and table-ID strings hold every
\* distinct ID of the input list exactly once, in ascending numeric order,
\* whatever the order and multiplicity of the input, and the strings of a
\* job whose lists are already canonical are those lists.
C17_CanonicalAscending ==
    lastIDs.calls > 0 =>
        /\ CanonicalOf(lastIDs.schema_ids, lastIDs.job.CtxVars[1])
        /\ CanonicalOf(lastIDs.table_ids, lastIDs.job.CtxVars[2])
        /\ lastIDs.calls = 2 =>
              /\ lastIDs.schema_ids = lastIDs.job.CtxVars[1]
              /\ lastIDs.table_ids = lastIDs.job.CtxVars[2]

(***************************************************************************)
(* Progress of the dispatch loop                                           *)
(***************************************************************************)
InTable(id) == \E r \in jobs : r.job_id = id

\* the row of the job is marked processing and a task holds the job
Delivered(id) ==
    /\ \E r \in jobs : r.job_id = id /\ r.processing
    /\ \E t \in tasks : t.id = id

EveryJobDelivered == \A id \in 1..MaxJobs : InTable(id) ~> Delivered(id)

\* a statement of getJob does not fail for ever: a load that has a job to
\* deliver again and again delivers one
GeneralDelivers == LoadGeneral /\ tasks' # tasks
ReorgDelivers == LoadReorg /\ tasks' # tasks

\* waitSchemaSynced does not fail for ever for the job id
SyncSucceeds(id) ==
    TaskSynced /\ \E t \in tasks : t.id = id /\ TaskMoved(t, "sync", "handle")

\* C28 as stated: woken by the ticker alone, with every task ending and every
\* handled job finishing, every job row in the table is eventually marked
\* processing and delivered to a worker.
C28_TickerAloneDelivers == EveryJobDelivered

\* C28: every job row in the table is eventually marked processing and
\* delivered to a worker, woken by the ticker alone, provided that in
\* addition neither the statements of getJob nor waitSchemaSynced fail for
\* ever.
C28_DeliversUnlessFailingForEver ==
    (/\ SF_vars(GeneralDelivers)
     /\ SF_vars(ReorgDelivers)
     /\ \A id \in 1..MaxJobs : SF_vars(SyncSucceeds(id)))
        => EveryJobDelivered

\* a second job is delivered while the first is still in the table
C28_Witness ==
    /\ Delivered(2)
    /\ InTable(1)
    /\ nextDue = DueOff


(***************************************************************************)
(* The lock of TxnInfo                                                     *)
(***************************************************************************)
\* C29: while the KV LockKeys, Commit or Rollback call is in progress the
\* lock of TxnInfo is not held, so a reader in another session can take the
\* read lock, and during LockKeys the reader finds the state LockAcquiring
\* and a valid blockStartTime.
C29_LockFreeDuringKVCall ==
    pc \in {"LockKeys", "Commit", "Rollback"} =>
        /\ RLockFree(txn)
        /\ pc = "LockKeys" =>
              /\ txn.mu.State = TxnLockAcquiring
              /\ txn.mu.BlockStartTimeValid

\* the KV LockKeys call of a running statement is in progress, the lock of
\* TxnInfo is free
C29_Witness ==
    /\ pc = "LockKeys"
    /\ lastCall.op = "kvLockKeys"
    /\ originState = TxnRunning
    /\ RLockFree(txn)
    /\ txn.mu.State = TxnLockAcquiring

(***************************************************************************)
(* The staging handle and the KV-transaction slot                          *)
(***************************************************************************)
\* C30: in every reachable state a staging handle other than the invalid
\* sentinel implies that the KV-transaction slot is set, so that countHint,
\* flushStmtBuf, cleanupStmtBuf, KeysNeedToLock and changeToInvalid never use
\* the write buffer of an absent transaction; in the Invalid and Pending
\* states the staging handle is the invalid sentinel.
C30_HandleImpliesTransaction ==
    /\ txn.stagingHandle # InvalidStagingHandle =>
          /\ Valid(txn)
          /\ txn.stagingHandle \in 1..Len(txn.Transaction.stages)
    /\ (Invalid(txn) \/ pending(txn)) =>
          txn.stagingHandle = InvalidStagingHandle

\* Wait has failed on a Pending transaction: cleanup ran with the
\* KV-transaction slot empty and the staging handle stayed the sentinel
C30_Witness ==
    /\ lastCall.op = "Wait"
    /\ lastCall.err = "err"
    /\ pending(lastCall.pre)
    /\ Invalid(txn)
    /\ txn.stagingHandle = InvalidStagingHandle
    /\ countHint(txn) = 0

MinOfGroup(tbl, r) ==
    \A q \in tbl :
        (q.schema_ids = r.schema_ids /\ q.table_ids = r.table_ids)
            => r.job_id <= q.job_id

MoveStep(op) == lastMove'.op = op /\ lastMove'.pre = Store /\ lastMove'.failed = "none"

\* the call returns without error and changes nothing
MoveDoesNothing == ~lastMove'.err /\ Store' = Store

====
